---------------------------- MODULE Spec2Model ----------------------------
(***************************************************************************)
(* SyncDisBoi: the playlist synchronization orchestrator (src/src/sync.rs) *)
(* running against a destination platform client, and the YtMusic          *)
(* adapter's request loop with rate-limit backoff                          *)
(* (src/src/yt_music/mod.rs).                                              *)
(*                                                                         *)
(* Strings whose letter case matters (playlist names, song names) are      *)
(* sequences of one-character strings, so that to_lowercase is computed.   *)
(***************************************************************************)
EXTENDS Integers, Sequences, FiniteSets, TLC

(***************************************************************************)
(* Bounds of the model.                                                    *)
(***************************************************************************)
MaxSrcPlaylists == 2
MaxDstPlaylists == 2
MaxSongs == 2
PaceSongs == 20

(***************************************************************************)
(* Generic helpers.                                                        *)
(***************************************************************************)
SeqsUpTo(S, n) == UNION {[1..k -> S] : k \in 0..n}

Last(s) == s[Len(s)]

RemoveAt(s, i) == SubSeq(s, 1, i - 1) \o SubSeq(s, i + 1, Len(s))

Min(a, b) == IF a <= b THEN a ELSE b

Abs(x) == IF x < 0 THEN -x ELSE x

\* s is obtained from t by deleting elements (order kept).
RECURSIVE IsSubseq(_, _)
IsSubseq(s, t) ==
    IF s = <<>> THEN TRUE
    ELSE IF t = <<>> THEN FALSE
    ELSE IF Head(s) = Head(t) THEN IsSubseq(Tail(s), Tail(t))
    ELSE IsSubseq(s, Tail(t))

(***************************************************************************)
(* str::to_lowercase on ASCII text.                                        *)
(***************************************************************************)
UpperToLower ==
    ("A" :> "a") @@ ("B" :> "b") @@ ("C" :> "c") @@ ("D" :> "d") @@
    ("E" :> "e") @@ ("F" :> "f") @@ ("G" :> "g") @@ ("H" :> "h") @@
    ("I" :> "i") @@ ("J" :> "j") @@ ("K" :> "k") @@ ("L" :> "l") @@
    ("M" :> "m") @@ ("N" :> "n") @@ ("O" :> "o") @@ ("P" :> "p") @@
    ("Q" :> "q") @@ ("R" :> "r") @@ ("S" :> "s") @@ ("T" :> "t") @@
    ("U" :> "u") @@ ("V" :> "v") @@ ("W" :> "w") @@ ("X" :> "x") @@
    ("Y" :> "y") @@ ("Z" :> "z")

LowerChar(c) == IF c \in DOMAIN UpperToLower THEN UpperToLower[c] ELSE c

ToLower(s) == [i \in DOMAIN s |-> LowerChar(s[i])]

(***************************************************************************)
(* Canonical music model (crate::music_api, crate::utils).                 *)
(***************************************************************************)
NoIsrc == "-"

NoOwner == "-"

NoSong == [source |-> "None"]

Song(source, id, isrc, name, dur) ==
    [source |-> source, id |-> id, isrc |-> isrc, name |-> name, duration |-> dur]

\* Duration tolerance of compare, in milliseconds.
DurationTolerance == 2000

\* Name normalisation of compare: letter case and whitespace do not count.
NormName(name) == ToLower(SelectSeq(name, LAMBDA c : c # " "))

\* Song::compare: the cross-platform equivalence; ids are not looked at.
Compare(a, b) ==
    /\ NormName(a.name) = NormName(b.name)
    /\ Abs(a.duration - b.duration) <= DurationTolerance

\* impl PartialEq for Song: what Vec::contains uses.
SongEq(a, b) == Compare(a, b)

\* songs.contains(&x): some element e with e == x.
Contains(songs, x) == \E i \in DOMAIN songs : SongEq(songs[i], x)

\* Platform-level duplicate: equal (source, id).
SameTrack(a, b) == a.source = b.source /\ a.id = b.id

\* utils::dedup_songs: one representative per (source, id), first occurrence kept.
RECURSIVE DedupSongs(_)
DedupSongs(songs) ==
    IF songs = <<>> THEN <<>>
    ELSE LET init == DedupSongs(SubSeq(songs, 1, Len(songs) - 1))
             x == Last(songs)
         IN  IF \E i \in DOMAIN init : SameTrack(init[i], x) THEN init
             ELSE Append(init, x)

(***************************************************************************)
(* Sync orchestrator: constants and pure steps of src/src/sync.rs.         *)
(***************************************************************************)
SKIPPED_PLAYLISTS ==
    <<
        <<"N","e","w"," ","p","l","a","y","l","i","s","t">>,
        <<"Y","o","u","r"," ","L","i","k","e","s">>,
        <<"M","y"," ","S","u","p","e","r","m","i","x">>,
        <<"D","i","s","c","o","v","e","r"," ","M","i","x">>,
        <<"E","p","i","s","o","d","e","s"," ","f","o","r"," ","L","a","t","e","r">>,
        <<"N","e","w"," ","R","e","l","e","a","s","e"," ","M","i","x">>,
        <<"A","r","c","h","i","v","e"," ","M","i","x">>,
        <<"L","i","k","e","d"," ","S","o","n","g","s">>,
        <<"D","i","s","c","o","v","e","r"," ","W","e","e","k","l","y">>,
        <<"B","i","g"," ","R","o","o","m"," ","H","o","u","s","e"," ","M","i","x">>,
        <<"M","o","t","i","v","a","t","i","o","n"," ","E","l","e","c","t","r","o","n","i","c"," ","M","i","x">>,
        <<"H","i","g","h"," ","E","n","e","r","g","y"," ","M","i","x">>
    >>

\* A skip-list match that compares the names as they are written.
ExactSkipListed(name, skip_playlists) ==
    \E i \in DOMAIN skip_playlists : name = skip_playlists[i]

\* The closure of the first retain: the name matches a skip-list entry, both
\* sides lowercased.
SkipListed(name, skip_playlists) ==
    \E i \in DOMAIN skip_playlists : ToLower(name) = ToLower(skip_playlists[i])

\* SKIPPED_PLAYLISTS.contains(&p.name.as_str()): exact string equality.
InSkippedPlaylists(name) ==
    \E i \in DOMAIN SKIPPED_PLAYLISTS : name = SKIPPED_PLAYLISTS[i]

\* iter().position(|p| p.name == name): index of the first one, 0 for None.
Position(playlists, name) ==
    IF \E i \in DOMAIN playlists : playlists[i].name = name
    THEN CHOOSE i \in DOMAIN playlists :
            /\ playlists[i].name = name
            /\ \A j \in 1..(i - 1) : playlists[j].name # name
    ELSE 0

\* The second retain: destination playlists not owned by dst_owner are
\* dropped, each one taking the first source playlist of its name with it.
\* Returns the source and destination lists that are left.
RECURSIVE RetainOwned(_, _, _, _)
RetainOwned(src, dst, kept, dst_owner) ==
    IF dst = <<>> THEN [src |-> src, dst |-> kept]
    ELSE LET playlist == Head(dst)
             i == Position(src, playlist.name)
         IN  IF playlist.owner # dst_owner
             THEN RetainOwned(IF i # 0 THEN RemoveAt(src, i) ELSE src,
                              Tail(dst), kept, dst_owner)
             ELSE RetainOwned(src, Tail(dst), Append(kept, playlist), dst_owner)

\* A loop that takes the playlists that pass the filter from the last to
\* the first.
BackwardLoopFilter(src) ==
    LET kept == SelectSeq(src, LAMBDA p : ~InSkippedPlaylists(p.name) /\ p.songs # <<>>)
    IN  [i \in DOMAIN kept |-> kept[Len(kept) + 1 - i]]

\* The filter of the for loop over the source playlists.
LoopFilter(src) ==
    SelectSeq(src, LAMBDA p : ~InSkippedPlaylists(p.name) /\ p.songs # <<>>)

\* A batch that leaves out only the songs already in the destination playlist.
RECURSIVE BuildBatchDup(_, _, _)
BuildBatchDup(present, dst_songs, batch) ==
    IF dst_songs = <<>> THEN batch
    ELSE LET dst_song == Head(dst_songs)
         IN  IF Contains(present, dst_song)
             THEN BuildBatchDup(present, Tail(dst_songs), batch)
             ELSE BuildBatchDup(present, Tail(dst_songs), Append(batch, dst_song))

\* Step 2 of the loop body: the batch built from the search results.
RECURSIVE BuildBatch(_, _, _)
BuildBatch(present, dst_songs, batch) ==
    IF dst_songs = <<>> THEN batch
    ELSE LET dst_song == Head(dst_songs)
         IN  IF Contains(present, dst_song) \/ Contains(batch, dst_song)
             THEN BuildBatch(present, Tail(dst_songs), batch)
             ELSE BuildBatch(present, Tail(dst_songs), Append(batch, dst_song))

\* to_sync.iter().filter(|s| !dst_likes.contains(s))
NotLiked(songs, likes) == SelectSeq(songs, LAMBDA s : ~Contains(likes, s))

\* A check that looks at the country codes only.
AnyCountryDiffers(cfg, pf) ==
    /\ ~cfg.diff_country
    /\ pf.src.country # pf.dst.country

\* synchronize, lines 36-42: the condition of the configuration error.
CountryMismatch(cfg, pf) ==
    /\ ~cfg.diff_country
    /\ pf.src.type # "YtMusic"
    /\ pf.dst.type # "YtMusic"
    /\ pf.src.type # "Plex"
    /\ pf.dst.type # "Plex"
    /\ pf.src.country # pf.dst.country

\* Lines 144-145 and 190-194: the statics' initial values, the number of
\* searches between two cooldowns, and the seconds added to the cooldown.
INITIAL_SONG_COUNTER == 0
INITIAL_SLEEP_DURATION == 180
SONGS_PER_BREAK == 200
SLEEP_INCREMENT == 60

\* A loop over the source songs that is left after its first turn.
AfterFirstSong(i, songs) == i > 1

\* Lines 180-227: the for loop over the source songs has ended.
SearchLoopOver(i, songs) == i > Len(songs)

\* A statistic that reports a ratio whatever the number of attempts.
RatioAlways(name, ok, tried) ==
    [name |-> name, ratio |-> TRUE, number |-> <<ok, tried>>,
     percent |-> IF tried # 0 THEN <<ok * 100, tried>> ELSE <<100, 1>>]

\* Lines 270-285: the statistic logged for a playlist: success/attempts and
\* the rate as a percentage (a fraction: numerator, denominator), or "no new
\* songs to add" when attempts is 0.
ConversionReport(name, ok, tried) ==
    IF tried # 0
    THEN [name |-> name, ratio |-> TRUE, number |-> <<ok, tried>>,
          percent |-> <<ok * 100, tried>>]
    ELSE [name |-> name, ratio |-> FALSE, number |-> <<ok, tried>>, percent |-> <<>>]

\* A likes queue that takes every song found.
QueuedAnyway(queue, song, likes) ==
    IF song = NoSong THEN queue ELSE Append(queue, song)

\* synchronize, lines 71-80: the queue of new likes after a search.
Queued(queue, song, likes) ==
    IF song = NoSong \/ Contains(likes, song) THEN queue ELSE Append(queue, song)

(***************************************************************************)
(* The inputs of a run: configuration, source snapshot, destination        *)
(* account and the destination platform's search answers.                  *)
(***************************************************************************)
Mix == <<"M","i","x">>
MixLower == <<"m","i","x">>
MixUpper == <<"M","I","X">>
LikedSongs == <<"L","i","k","e","d"," ","S","o","n","g","s">>
LikedSongsLower == <<"l","i","k","e","d"," ","s","o","n","g","s">>

SrcNames == {Mix, MixLower, LikedSongs, LikedSongsLower}
DstNames == {Mix}
SkipLists == {<<>>, <<MixUpper>>}

\* The account the destination client is logged in as, and other owners.
Me == "me"
Owners == {Me, "other", NoOwner}

\* Source songs: the same recording twice (once with an ISRC, once without,
\* its name differing in case and whitespace only).
SrcSong1 == Song("Src", "s1", "X", <<"A">>, 100000)
SrcSong2 == Song("Src", "s2", NoIsrc, <<"a", " ">>, 101000)
SrcSongPool == {SrcSong1, SrcSong2}

\* Destination songs: that recording, and one of the same name that is four
\* seconds longer.
DstSong1 == Song("Dst", "d1", NoIsrc, <<"a">>, 100000)
DstSong2 == Song("Dst", "d2", NoIsrc, <<"a">>, 104000)
DstSongPool == {DstSong1, DstSong2}

Rankings == {<<>>, <<DstSong1>>, <<DstSong2, DstSong1>>}

\* Destination playlists as the platform lists them; ids are positions.
WithIds(bodies) ==
    [i \in DOMAIN bodies |->
        [id |-> i, name |-> bodies[i].name, owner |-> bodies[i].owner,
         songs |-> bodies[i].songs]]

VARIABLES
    \* inputs, fixed during a behaviour
    config,          \* ConfigArgs, skip_playlists, dst_owner
    srcSnapshot,     \* what src_api.get_playlists_full returns
    srcLikesSnapshot,\* what src_api.get_likes returns
    isrcHit,         \* the destination's answer to an exact-ISRC search
    ranking,         \* the destination's candidates for a text search, in order
    platform,        \* the command run, and each client's api_type and country_code
    \* the destination account
    remotePlaylists,
    remoteLikes,
    \* the orchestrator
    run,             \* 1: first run, 2: the run repeated
    pc,
    src_playlists,
    dst_playlists,
    dst_likes,
    src_playlist,
    dst_playlist,
    idx,
    dst_songs,
    to_sync,
    attempts,
    success,
    src_likes,
    new_likes,
    targets,         \* ids of the destination playlists paired so far in this run
    calls,           \* the client calls issued, in order
    stats,           \* the statistic logged for each playlist processed, in order
    \* the statics of synchronize_playlists (lines 144-145) and the sleeps taken
    SONG_COUNTER,
    SLEEP_DURATION,
    cooldowns

envVars == <<config, srcSnapshot, srcLikesSnapshot, isrcHit, ranking, platform>>
remoteVars == <<remotePlaylists, remoteLikes>>
listVars == <<src_playlists, dst_playlists, dst_likes>>
bodyVars == <<src_playlist, dst_playlist, idx, dst_songs, to_sync, attempts, success>>
likeVars == <<src_likes, new_likes>>
paceVars == <<SONG_COUNTER, SLEEP_DURATION, cooldowns>>
syncVars == <<run, pc, listVars, bodyVars, likeVars, targets, calls, stats, paceVars>>


\* YtMusicApi::make_request, one request
VARIABLES
    req_state,     \* where make_request is: idle, attempting, backoff, or how it ended
    retry_count,
    sent,          \* attempts sent for this request
    limited,       \* responses that were rate-limited
    backoff,       \* the duration of the sleep in progress
    waits,         \* the sleeps taken, in order
    response,      \* the last response received
    auth_type,     \* YtMusicAuthType of the client: OAuth or Browser
    token_age,     \* seconds elapsed since last_token_refresh
    sent_ages      \* token_age at the moment each attempt was sent

reqVars == <<req_state, retry_count, sent, limited, backoff, waits, response,
             auth_type, token_age, sent_ages>>

\* paginated_request of an adapter, and get_playlists_info on top of it
VARIABLES
    pg_api,        \* the adapter: YtMusic (continuation token) or Tidal (offset)
    pg_state,      \* idle, fetching, fetched, listed or failed
    pg_items,      \* the merged item list
    pg_token,      \* YtMusic: whether a continuation token is held
    pg_offset,     \* Tidal: the offset of the next request
    pg_total,      \* Tidal: total_number_of_items of the first page
    pg_pages,      \* the pages received, in order
    pg_offsets,    \* the offsets requested, in order
    pg_result      \* what get_playlists_info returns

pageVars == <<pg_api, pg_state, pg_items, pg_token, pg_offset, pg_total, pg_pages,
              pg_offsets, pg_result>>

\* add_songs_to_playlist of an adapter, one call
VARIABLES
    ad_api,        \* the adapter
    ad_state,      \* idle, running, ok or failed
    ad_prev,       \* playlist.songs when the call is made
    ad_batch,      \* the songs argument
    ad_songs,      \* playlist.songs, the in-memory list
    ad_stack,      \* YtMusic: the slices whose (recursive) calls are pending
    ad_requests,   \* the slices sent to the platform, in order
    ad_op,         \* the trait method called on the adapter
    ad_answers     \* YtMusic: what the platform answered to each request sent

addVars == <<ad_api, ad_state, ad_prev, ad_batch, ad_songs, ad_stack, ad_requests,
             ad_op, ad_answers>>

\* search_song of an adapter, one call
VARIABLES
    sr_api,        \* the adapter
    sr_state,      \* idle, searching, found, none or failed
    sr_song,       \* the song searched for
    sr_queries,    \* the queries not tried yet
    sr_requests,   \* the search requests sent, in order
    sr_answers,    \* the candidates each request returned
    sr_result      \* the song returned

searchVars == <<sr_api, sr_state, sr_song, sr_queries, sr_requests, sr_answers, sr_result>>

adapterVars == <<pageVars, addVars, searchVars>>

NoPlaylist == [id |-> 0, name |-> <<>>, owner |-> NoOwner, songs |-> <<>>]


(***************************************************************************)
(* The destination client, as far as the orchestrator sees it.             *)
(***************************************************************************)
\* The candidate loop of search_song: the first candidate compare accepts.
RECURSIVE FirstMatch(_, _)
FirstMatch(song, candidates) ==
    IF candidates = <<>> THEN NoSong
    ELSE IF Compare(song, Head(candidates)) THEN Head(candidates)
    ELSE FirstMatch(song, Tail(candidates))

\* search_song: with an ISRC the exact-ISRC answer is returned as it is (the
\* ISRC copied into it); without one the candidates are filtered by compare.
SearchResult(song, hit, candidates) ==
    IF song.isrc # NoIsrc
    THEN IF hit = NoSong THEN NoSong ELSE [hit EXCEPT !.isrc = song.isrc]
    ELSE FirstMatch(song, candidates)

\* create_playlist: the playlist object handed back to the caller.
CreatedPlaylist(id, name) == [id |-> id, name |-> name, owner |-> "", songs |-> <<>>]

\* The account after a successful create_playlist / add_songs_to_playlist.
RemoteCreate(playlists, id, name) ==
    Append(playlists, [id |-> id, name |-> name, owner |-> Me, songs |-> <<>>])

RemoteAdd(playlists, id, songs) ==
    [i \in DOMAIN playlists |->
        IF playlists[i].id = id
        THEN [playlists[i] EXCEPT !.songs = @ \o songs]
        ELSE playlists[i]]

(***************************************************************************)
(* The orchestrator as a state machine: one action per client call, with   *)
(* the code that runs up to the next call.                                 *)
(***************************************************************************)
\* The source playlist a call is made for, as its place among the playlists
\* processed in this run: create_playlist precedes the loop body.
\* Calls made outside the loop over the playlists have place 0.
Item(op) ==
    CASE op = "create_playlist" -> Len(targets) + 1
      [] pc \in {"songs", "like_added"} -> Len(targets)
      [] OTHER -> 0

\* A call that goes to the other client.
CallOther(api, op, pl, target, songs, ok) ==
    [run |-> run, item |-> Item(op), api |-> IF api = "dst" THEN "src" ELSE "dst",
     op |-> op, pl |-> pl, target |-> target, songs |-> songs, ok |-> ok]

Call(api, op, pl, target, songs, ok) ==
    [run |-> run, item |-> Item(op), api |-> api, op |-> op, pl |-> pl,
     target |-> target, songs |-> songs, ok |-> ok]

Issue(call) == calls' = Append(calls, call)

\* The ? operator after a client call: an Err leaves the function.
SwallowError(resume) == resume

AfterError(resume) == "failed"

InitBody ==
    /\ src_playlist = NoPlaylist
    /\ dst_playlist = NoPlaylist
    /\ idx = 0
    /\ dst_songs = <<>>
    /\ to_sync = <<>>
    /\ attempts = 0
    /\ success = 0

InitSync ==
    /\ run = 1
    /\ pc = "entry"
    /\ src_playlists = <<>>
    /\ dst_playlists = <<>>
    /\ dst_likes = <<>>
    /\ InitBody
    /\ src_likes = <<>>
    /\ new_likes = <<>>
    /\ targets = <<>>
    /\ calls = <<>>
    /\ stats = <<>>
    /\ SONG_COUNTER = INITIAL_SONG_COUNTER
    /\ SLEEP_DURATION = INITIAL_SLEEP_DURATION
    /\ cooldowns = <<>>

NoLikes ==
    /\ srcLikesSnapshot = <<>>
    /\ remoteLikes = <<>>

\* synchronize is run from a Tidal account to a YtMusic account.
SyncToYtMusic ==
    [command |-> "sync", src |-> [type |-> "Tidal", country |-> "SE"],
     dst |-> [type |-> "YtMusic", country |-> "UNKNOWN"]]

\* Inputs about playlist names, owners and the skip-list: any names on both
\* sides, at most one song per source playlist, every search answered.
NameInputs ==
    /\ config \in [like_all : {FALSE}, sync_likes : {FALSE},
                   skip_playlists : SkipLists, dst_owner : {Me}, diff_country : {FALSE}]
    /\ srcSnapshot \in
          SeqsUpTo([name : SrcNames, songs : {<<>>, <<SrcSong1>>}], MaxSrcPlaylists)
    /\ remotePlaylists \in
          {WithIds(b) : b \in
              SeqsUpTo([name : DstNames, owner : Owners, songs : {<<>>}],
                       MaxDstPlaylists)}
    /\ isrcHit = DstSong1
    /\ ranking = <<DstSong1>>
    /\ NoLikes
    /\ platform = SyncToYtMusic

\* Inputs about the songs of one playlist: any source songs, any search
\* answers, the destination playlist absent or present with up to one song.
SongInputs ==
    /\ config \in [like_all : {FALSE}, sync_likes : {FALSE},
                   skip_playlists : {<<>>}, dst_owner : {Me}, diff_country : {FALSE}]
    /\ srcSnapshot \in
          {<<p>> : p \in [name : {Mix}, songs : SeqsUpTo(SrcSongPool, MaxSongs)]}
    /\ remotePlaylists \in
          {WithIds(b) : b \in
              SeqsUpTo([name : {Mix}, owner : {Me}, songs : SeqsUpTo(DstSongPool, 1)], 1)}
    /\ isrcHit \in DstSongPool \cup {NoSong}
    /\ ranking \in Rankings
    /\ NoLikes
    /\ platform = SyncToYtMusic

\* Inputs about likes: one of the two like options set, one-song playlists,
\* up to one like on each side, or (with at most one playlist) both songs
\* liked at the source.
LikeInputs ==
    /\ config \in [like_all : BOOLEAN, sync_likes : BOOLEAN,
                   skip_playlists : {<<>>}, dst_owner : {Me}, diff_country : {FALSE}]
    /\ config.like_all \/ config.sync_likes
    /\ srcSnapshot \in
          SeqsUpTo([name : {Mix, MixLower}, songs : {<<s>> : s \in SrcSongPool}],
                   MaxSrcPlaylists)
    /\ remotePlaylists = <<>>
    /\ isrcHit \in DstSongPool \cup {NoSong}
    /\ ranking = <<DstSong1>>
    /\ srcLikesSnapshot \in
          IF config.sync_likes
          THEN SeqsUpTo(SrcSongPool, 1)
                  \cup (IF Len(srcSnapshot) <= 1 THEN {<<SrcSong1, SrcSong2>>} ELSE {})
          ELSE {<<>>}
    /\ remoteLikes \in SeqsUpTo(DstSongPool, 1)
    /\ platform = SyncToYtMusic

\* The clients a run can be given: YtMusic and Plex report no country.
Clients ==
    {[type |-> "YtMusic", country |-> "UNKNOWN"],
     [type |-> "Plex", country |-> "UNKNOWN"],
     [type |-> "Tidal", country |-> "SE"],
     [type |-> "Tidal", country |-> "US"],
     [type |-> "Spotify", country |-> "US"]}

\* Inputs about the entry point: synchronize or import, any two clients,
\* the country override set or not; one playlist of one song without ISRC,
\* the destination account empty.
EntryInputs ==
    /\ platform \in [command : {"sync", "import"}, src : Clients, dst : Clients]
    /\ config \in [like_all : {FALSE}, sync_likes : BOOLEAN,
                   skip_playlists : {<<>>}, dst_owner : {Me}, diff_country : BOOLEAN]
    /\ srcSnapshot = <<[name |-> Mix, songs |-> <<SrcSong2>>]>>
    /\ remotePlaylists = <<>>
    /\ isrcHit = NoSong
    /\ ranking = <<DstSong1>>
    /\ NoLikes

\* Inputs about pacing: a YtMusic or a Tidal destination and playlists of
\* PaceSongs songs each, as many as it takes to reach a cooldown; no song is
\* found.
ManySongs == [i \in 1..PaceSongs |-> Song("Src", i, NoIsrc, <<"a">>, 100000)]

ManyPlaylists ==
    [p \in 1..((SONGS_PER_BREAK + PaceSongs - 1) \div PaceSongs) |->
        [name |-> Mix, songs |-> ManySongs]]

PaceInputs ==
    /\ platform \in {SyncToYtMusic,
                      [SyncToYtMusic EXCEPT !.dst = [type |-> "Tidal", country |-> "SE"]]}
    /\ config = [like_all |-> FALSE, sync_likes |-> FALSE, skip_playlists |-> <<>>,
                 dst_owner |-> Me, diff_country |-> FALSE]
    /\ srcSnapshot = ManyPlaylists
    /\ remotePlaylists = <<>>
    /\ isrcHit = NoSong
    /\ ranking = <<>>
    /\ NoLikes

InitEnv == NameInputs \/ SongInputs \/ LikeInputs \/ EntryInputs \/ PaceInputs

\* synchronize, lines 36-50: the country check, before any client call.
CheckCountry ==
    /\ pc = "entry"
    /\ platform.command = "sync"
    /\ pc' = IF CountryMismatch(config, platform) THEN "config_error" ELSE "start"
    /\ UNCHANGED <<reqVars, adapterVars, paceVars, stats, envVars, remoteVars, run, listVars,
                   bodyVars, likeVars, targets, calls>>

\* import, lines 11-14: the source playlists are read from the JSON file
\* (which may fail) and handed to synchronize_playlists.
ImportPlaylists ==
    /\ pc = "entry"
    /\ platform.command = "import"
    /\ \/ /\ src_playlists' = srcSnapshot
          /\ pc' = "dst_playlists"
       \/ /\ pc' = "failed"
          /\ UNCHANGED src_playlists
    /\ UNCHANGED <<reqVars, adapterVars, paceVars, stats, envVars, remoteVars, run, dst_playlists,
                   dst_likes, bodyVars, likeVars, targets, calls>>

\* synchronize, line 57: src_api.get_playlists_full().await?
GetSrcPlaylists ==
    /\ pc = "start"
    /\ \E ok \in BOOLEAN :
        /\ Issue(Call("src", "get_playlists_full", <<>>, 0, <<>>, ok))
        /\ IF ok
           THEN /\ src_playlists' = srcSnapshot
                /\ pc' = "dst_playlists"
           ELSE /\ pc' = AfterError("dst_playlists")
                /\ UNCHANGED src_playlists
    /\ UNCHANGED <<reqVars, adapterVars, paceVars, stats, envVars, remoteVars, run, dst_playlists, dst_likes, bodyVars,
                   likeVars, targets>>

\* synchronize_playlists, line 103: dst_api.get_playlists_full().await?
GetDstPlaylists ==
    /\ pc = "dst_playlists"
    /\ \E ok \in BOOLEAN :
        /\ Issue(Call("dst", "get_playlists_full", <<>>, 0, <<>>, ok))
        /\ IF ok
           THEN /\ dst_playlists' = remotePlaylists
                /\ pc' = IF config.like_all THEN "dst_likes" ELSE "filter"
           ELSE /\ pc' = AfterError(IF config.like_all THEN "dst_likes" ELSE "filter")
                /\ UNCHANGED dst_playlists
    /\ UNCHANGED <<reqVars, adapterVars, paceVars, stats, envVars, remoteVars, run, src_playlists, dst_likes, bodyVars,
                   likeVars, targets>>

\* synchronize_playlists, lines 105-108: dst_api.get_likes().await? under like_all
GetDstLikes ==
    /\ pc = "dst_likes"
    /\ \E ok \in BOOLEAN :
        /\ Issue(Call("dst", "get_likes", <<>>, 0, <<>>, ok))
        /\ IF ok
           THEN /\ dst_likes' = remoteLikes
                /\ pc' = "filter"
           ELSE /\ pc' = AfterError("filter")
                /\ UNCHANGED dst_likes
    /\ UNCHANGED <<reqVars, adapterVars, paceVars, stats, envVars, remoteVars, run, src_playlists, dst_playlists, bodyVars,
                   likeVars, targets>>

\* synchronize_playlists, lines 117-149: the two retains and the loop's filter.
FilterPlaylists ==
    /\ pc = "filter"
    /\ LET unskipped == SelectSeq(src_playlists,
                LAMBDA p : ~SkipListed(p.name, config.skip_playlists))
           kept == RetainOwned(unskipped, dst_playlists, <<>>, config.dst_owner)
       IN  /\ src_playlists' = LoopFilter(kept.src)
           /\ dst_playlists' = kept.dst
    /\ pc' = "loop"
    /\ UNCHANGED <<reqVars, adapterVars, paceVars, stats, envVars, remoteVars, run, dst_likes, bodyVars, likeVars,
                   targets, calls>>


\* A loop over the songs as the source lists them.
SearchAsListed(songs) == songs

\* Line 170: dedup_songs(&mut src_playlist.songs), before the search loop.
DedupBeforeSearch(songs) == DedupSongs(songs)

\* What every iteration of the loop starts with, once its destination
\* playlist is known (lines 163-175).
EnterBody(p, dst) ==
    /\ src_playlist' = [p EXCEPT !.songs = DedupBeforeSearch(p.songs)]
    /\ dst_playlist' = dst
    /\ src_playlists' = Tail(src_playlists)
    /\ idx' = 1
    /\ dst_songs' = <<>>
    /\ to_sync' = <<>>
    /\ attempts' = 0
    /\ success' = 0
    /\ targets' = Append(targets, dst.id)
    /\ pc' = "songs"

\* The remaining destination playlists after a match at position i.
KeepMatched(playlists, i) == playlists

ConsumeMatched(playlists, i) == RemoveAt(playlists, i)

\* Lines 155-159: a remaining destination playlist has the name; it is taken.
PairPlaylist ==
    /\ pc = "loop"
    /\ src_playlists # <<>>
    /\ LET p == Head(src_playlists)
           i == Position(dst_playlists, p.name)
       IN  /\ i # 0
           /\ dst_playlists' = ConsumeMatched(dst_playlists, i)
           /\ EnterBody(p, dst_playlists[i])
    /\ UNCHANGED <<reqVars, adapterVars, paceVars, stats, envVars, remoteVars, run, dst_likes, likeVars, calls>>

\* Lines 155-161: none has the name; dst_api.create_playlist(name, false).await?
CreatePlaylist ==
    /\ pc = "loop"
    /\ src_playlists # <<>>
    /\ LET p == Head(src_playlists)
           id == Len(remotePlaylists) + 1
       IN  /\ Position(dst_playlists, p.name) = 0
           /\ \E ok \in BOOLEAN :
               /\ Issue(Call("dst", "create_playlist", p.name, 0, <<>>, ok))
               /\ IF ok
                  THEN /\ remotePlaylists' = RemoteCreate(remotePlaylists, id, p.name)
                       /\ EnterBody(p, CreatedPlaylist(id, p.name))
                  ELSE /\ pc' = AfterError("loop")
                       /\ UNCHANGED <<remotePlaylists, src_playlists, bodyVars, targets>>
    /\ UNCHANGED <<reqVars, adapterVars, paceVars, stats, envVars, remoteLikes, run, dst_playlists, dst_likes, likeVars>>

\* Lines 180-184: the source song is already in the destination playlist.
SongPresent ==
    /\ pc = "songs"
    /\ idx <= Len(src_playlist.songs)
    /\ Contains(dst_playlist.songs, src_playlist.songs[idx])
    /\ idx' = idx + 1
    /\ UNCHANGED <<reqVars, adapterVars, paceVars, stats, envVars, remoteVars, run, pc, listVars, src_playlist, dst_playlist,
                   dst_songs, to_sync, attempts, success, likeVars, targets, calls>>

\* The searches this run has made for songs of playlists.
SearchesOfRun ==
    Cardinality({i \in DOMAIN calls :
        calls[i].run = run /\ calls[i].op = "search_song" /\ calls[i].item > 0})

\* A pacing that does not look at the destination platform.
PaceAnyDestination ==
    /\ SONG_COUNTER' = SONG_COUNTER + 1
    /\ IF SONG_COUNTER' % SONGS_PER_BREAK = 0
       THEN /\ cooldowns' = Append(cooldowns,
                    [run |-> run, nth |-> SearchesOfRun + 1, secs |-> SLEEP_DURATION])
            /\ SLEEP_DURATION' = SLEEP_DURATION + SLEEP_INCREMENT
       ELSE UNCHANGED <<SLEEP_DURATION, cooldowns>>

\* Lines 186-197: with a YtMusic destination the search is counted, and a
\* sleep is taken when the count is a multiple of SONGS_PER_BREAK.
Pace ==
    IF platform.dst.type = "YtMusic"
    THEN /\ SONG_COUNTER' = SONG_COUNTER + 1
         /\ IF SONG_COUNTER' % SONGS_PER_BREAK = 0
            THEN /\ cooldowns' = Append(cooldowns,
                        [run |-> run, nth |-> SearchesOfRun + 1, secs |-> SLEEP_DURATION])
                 /\ SLEEP_DURATION' = SLEEP_DURATION + SLEEP_INCREMENT
            ELSE UNCHANGED <<SLEEP_DURATION, cooldowns>>
    ELSE UNCHANGED paceVars

\* Lines 186-226: dst_api.search_song(src_song).await?
SearchSong ==
    /\ pc = "songs"
    /\ idx <= Len(src_playlist.songs)
    /\ ~Contains(dst_playlist.songs, src_playlist.songs[idx])
    /\ Pace
    /\ LET src_song == src_playlist.songs[idx]
           found == SearchResult(src_song, isrcHit, ranking)
       IN  \E ok \in BOOLEAN :
            /\ Issue(Call("dst", "search_song", src_playlist.name, 0, <<src_song>>, ok))
            /\ attempts' = attempts + 1
            /\ IF ok
               THEN /\ idx' = idx + 1
                    /\ pc' = pc
                    /\ IF found = NoSong
                       THEN UNCHANGED <<dst_songs, success>>
                       ELSE /\ dst_songs' = Append(dst_songs, found)
                            /\ success' = success + 1
               ELSE /\ pc' = AfterError(pc)
                    /\ UNCHANGED <<idx, dst_songs, success>>
    /\ UNCHANGED <<reqVars, adapterVars, stats, envVars, remoteVars, run, listVars, src_playlist, dst_playlist,
                   to_sync, likeVars, targets>>

\* Lines 270-285, at the end of the loop body: the playlist's statistic is
\* logged.
Logged ==
    Append(stats, [run |-> run, item |-> Len(targets),
                   report |-> ConversionReport(src_playlist.name, success, attempts)])

\* Lines 229-257: the batch is built and submitted:
\* dst_api.add_songs_to_playlist(&mut dst_playlist, &to_sync).await?
\* The adapter appends to the playlist object before it sends the request.
AddSongs ==
    /\ pc = "songs"
    /\ SearchLoopOver(idx, src_playlist.songs)
    /\ dst_songs # <<>>
    /\ LET batch == BuildBatch(dst_playlist.songs, dst_songs, <<>>)
       IN  /\ to_sync' = batch
           /\ dst_playlist' = [dst_playlist EXCEPT !.songs = @ \o batch]
           /\ \E ok \in BOOLEAN :
               /\ Issue(Call("dst", "add_songs_to_playlist", src_playlist.name,
                             dst_playlist.id, batch, ok))
               /\ IF ok
                  THEN /\ remotePlaylists' = RemoteAdd(remotePlaylists, dst_playlist.id, batch)
                       /\ pc' = IF config.like_all THEN "like_added" ELSE "loop"
                       /\ stats' = IF config.like_all THEN stats ELSE Logged
                  ELSE /\ pc' = AfterError(IF config.like_all THEN "like_added" ELSE "loop")
                       /\ UNCHANGED <<remotePlaylists, stats>>
    /\ UNCHANGED <<reqVars, adapterVars, paceVars, envVars, remoteLikes, run, listVars, src_playlist, idx, dst_songs,
                   attempts, success, likeVars, targets>>

\* Line 230: no search returned a song; nothing is submitted.
NoNewSongs ==
    /\ pc = "songs"
    /\ SearchLoopOver(idx, src_playlist.songs)
    /\ dst_songs = <<>>
    /\ pc' = "loop"
    /\ stats' = Logged
    /\ UNCHANGED <<reqVars, adapterVars, paceVars, envVars, remoteVars, run, listVars, bodyVars, likeVars, targets, calls>>

\* Lines 260-267: dst_api.add_likes(&new_likes).await? under like_all
LikeAdded ==
    /\ pc = "like_added"
    /\ LET likes == NotLiked(to_sync, dst_likes)
       IN  \E ok \in BOOLEAN :
            /\ Issue(Call("dst", "add_likes", src_playlist.name, 0, likes, ok))
            /\ IF ok
               THEN /\ remoteLikes' = remoteLikes \o likes
                    /\ pc' = "loop"
                    /\ stats' = Logged
               ELSE /\ pc' = AfterError("loop")
                    /\ UNCHANGED <<remoteLikes, stats>>
    /\ UNCHANGED <<reqVars, adapterVars, paceVars, envVars, remotePlaylists, run, listVars, bodyVars, likeVars, targets>>

\* import, lines 14-21: the loop is over, synchronize_playlists returns Ok
\* to import, which returns Ok.
ImportDone ==
    /\ pc = "loop"
    /\ src_playlists = <<>>
    /\ platform.command = "import"
    /\ pc' = "done"
    /\ UNCHANGED <<reqVars, adapterVars, paceVars, stats, envVars, remoteVars, run, listVars,
                   bodyVars, likeVars, targets, calls>>

\* Lines 333-337 and 59-61: the loop is over, synchronize_playlists returns Ok
\* to synchronize.
PlaylistsDone ==
    /\ pc = "loop"
    /\ src_playlists = <<>>
    /\ platform.command = "sync"
    /\ pc' = IF config.sync_likes THEN "src_likes" ELSE "done"
    /\ UNCHANGED <<reqVars, adapterVars, paceVars, stats, envVars, remoteVars, run, listVars, bodyVars, likeVars, targets, calls>>


\* synchronize, line 63: src_api.get_likes().await?
GetSrcLikes ==
    /\ pc = "src_likes"
    /\ \E ok \in BOOLEAN :
        /\ Issue(Call("src", "get_likes", <<>>, 0, <<>>, ok))
        /\ IF ok
           THEN /\ src_likes' = srcLikesSnapshot
                /\ pc' = "mirror_dst_likes"
           ELSE /\ pc' = AfterError("mirror_dst_likes")
                /\ UNCHANGED src_likes
    /\ UNCHANGED <<reqVars, adapterVars, paceVars, stats, envVars, remoteVars, run, listVars, bodyVars, new_likes, targets>>

\* synchronize, lines 64-66: dst_api.get_likes().await?
GetMirrorDstLikes ==
    /\ pc = "mirror_dst_likes"
    /\ \E ok \in BOOLEAN :
        /\ Issue(Call("dst", "get_likes", <<>>, 0, <<>>, ok))
        /\ IF ok
           THEN /\ dst_likes' = remoteLikes
                /\ pc' = "likes"
           ELSE /\ pc' = AfterError("likes")
                /\ UNCHANGED dst_likes
    /\ idx' = 1
    /\ new_likes' = <<>>
    /\ UNCHANGED <<reqVars, adapterVars, paceVars, stats, envVars, remoteVars, run, src_playlists, dst_playlists, src_playlist,
                   dst_playlist, dst_songs, to_sync, attempts, success, src_likes, targets>>

\* synchronize, lines 68-70: the source like is among the destination likes.
LikePresent ==
    /\ pc = "likes"
    /\ idx <= Len(src_likes)
    /\ Contains(dst_likes, src_likes[idx])
    /\ idx' = idx + 1
    /\ UNCHANGED <<reqVars, adapterVars, paceVars, stats, envVars, remoteVars, run, pc, listVars, src_playlist, dst_playlist,
                   dst_songs, to_sync, attempts, success, likeVars, targets, calls>>

\* synchronize, lines 71-80: dst_api.search_song(&src_like).await?
LikeSearch ==
    /\ pc = "likes"
    /\ idx <= Len(src_likes)
    /\ ~Contains(dst_likes, src_likes[idx])
    /\ LET src_like == src_likes[idx]
           found == SearchResult(src_like, isrcHit, ranking)
       IN  \E ok \in BOOLEAN :
            /\ Issue(Call("dst", "search_song", <<>>, 0, <<src_like>>, ok))
            /\ IF ok
               THEN /\ idx' = idx + 1
                    /\ pc' = pc
                    /\ new_likes' = Queued(new_likes, found, dst_likes)
               ELSE /\ pc' = AfterError(pc)
                    /\ UNCHANGED <<idx, new_likes>>
    /\ UNCHANGED <<reqVars, adapterVars, paceVars, stats, envVars, remoteVars, run, listVars, src_playlist, dst_playlist,
                   dst_songs, to_sync, attempts, success, src_likes, targets>>

\* synchronize, lines 83-87: dst_api.add_likes(&new_likes).await?, then Ok(())
AddLikes ==
    /\ pc = "likes"
    /\ idx > Len(src_likes)
    /\ \E ok \in BOOLEAN :
        /\ Issue(Call("dst", "add_likes", <<>>, 0, new_likes, ok))
        /\ IF ok
           THEN /\ remoteLikes' = remoteLikes \o new_likes
                /\ pc' = "done"
           ELSE /\ pc' = AfterError("done")
                /\ UNCHANGED remoteLikes
    /\ UNCHANGED <<reqVars, adapterVars, paceVars, stats, envVars, remotePlaylists, run, listVars, bodyVars, likeVars, targets>>

\* The program is started again with the same source snapshot, against the
\* destination account as the first run left it.
Rerun ==
    /\ pc = "done"
    /\ run = 1
    /\ run' = 2
    /\ pc' = "entry"
    /\ src_playlists' = <<>>
    /\ dst_playlists' = <<>>
    /\ dst_likes' = <<>>
    /\ src_playlist' = NoPlaylist
    /\ dst_playlist' = NoPlaylist
    /\ idx' = 0
    /\ dst_songs' = <<>>
    /\ to_sync' = <<>>
    /\ attempts' = 0
    /\ success' = 0
    /\ src_likes' = <<>>
    /\ new_likes' = <<>>
    /\ targets' = <<>>
    /\ SONG_COUNTER' = INITIAL_SONG_COUNTER
    /\ SLEEP_DURATION' = INITIAL_SLEEP_DURATION
    /\ UNCHANGED <<reqVars, adapterVars, cooldowns, stats, envVars, remoteVars, calls>>

\* The entry point is called a second time by the same process: the statics
\* of synchronize_playlists keep their values.
RunAgain ==
    /\ pc = "done"
    /\ run = 1
    /\ run' = 2
    /\ pc' = "entry"
    /\ src_playlists' = <<>>
    /\ dst_playlists' = <<>>
    /\ dst_likes' = <<>>
    /\ src_playlist' = NoPlaylist
    /\ dst_playlist' = NoPlaylist
    /\ idx' = 0
    /\ dst_songs' = <<>>
    /\ to_sync' = <<>>
    /\ attempts' = 0
    /\ success' = 0
    /\ src_likes' = <<>>
    /\ new_likes' = <<>>
    /\ targets' = <<>>
    /\ UNCHANGED <<reqVars, adapterVars, paceVars, stats, envVars, remoteVars, calls>>

(***************************************************************************)
(* YtMusicApi::make_request: one request, its attempts and backoff sleeps  *)
(* (src/src/yt_music/mod.rs).                                              *)
(***************************************************************************)
MAX_RETRIES == 5
MAX_BACKOFF_SECS == 900

\* u64::pow by repeated multiplication.
RECURSIVE Pow(_, _)
Pow(base, exp) == IF exp = 0 THEN 1 ELSE base * Pow(base, exp - 1)

\* Number of bits of the binary representation of n.
RECURSIVE BitLen(_)
BitLen(n) == IF n = 0 THEN 0 ELSE 1 + BitLen(n \div 2)

\* The responses a server can give to one attempt, by what the code reads:
\* the status, whether the body holds the "automated queries" text, whether
\* it holds a not-logged-in or sign-in signal, and whether it parses as T.
Statuses == {200, 400, 429, 503}

Responses ==
    [status : Statuses, automated : BOOLEAN, signed_out : BOOLEAN, parses : BOOLEAN]

IsClientError(status) == status >= 400 /\ status < 500

IsServerError(status) == status >= 500 /\ status < 600

\* check_authentication_errors: Err when the body carries a signal.
AuthenticationError(res) == res.signed_out

\* handle_rate_limit_with_retry, lines 701-702.
IsRateLimited(res) ==
    \/ res.status = 429
    \/ (IsClientError(res.status) /\ res.automated)

\* A backoff that doubles instead of tripling.
DoublingBackoff(retries) == Min(Pow(2, retries + 1), MAX_BACKOFF_SECS)

\* handle_rate_limit_with_retry, line 713: the backoff in seconds.
BackoffSecs(retries) == Min(Pow(3, retries + 1), MAX_BACKOFF_SECS)

\* A retry decision that never gives up.
NoRetryLimit(res, retries) ==
    IF ~IsRateLimited(res) THEN [action |-> "Continue", secs |-> 0]
    ELSE [action |-> "Retry", secs |-> BackoffSecs(retries)]

\* A retry decision that allows one retry more.
OneMoreRetry(res, retries) ==
    IF ~IsRateLimited(res) THEN [action |-> "Continue", secs |-> 0]
    ELSE IF retries > MAX_RETRIES
         THEN [action |-> "MaxRetriesExceeded", secs |-> 0]
         ELSE [action |-> "Retry", secs |-> BackoffSecs(retries)]

\* A retry decision that also retries after a server error.
RetryServerErrors(res, retries) ==
    IF ~(IsRateLimited(res) \/ IsServerError(res.status))
    THEN [action |-> "Continue", secs |-> 0]
    ELSE IF retries >= MAX_RETRIES
         THEN [action |-> "MaxRetriesExceeded", secs |-> 0]
         ELSE [action |-> "Retry", secs |-> BackoffSecs(retries)]

\* handle_rate_limit_with_retry: the RateLimitAction returned.
HandleRateLimit(res, retries) ==
    IF ~IsRateLimited(res) THEN [action |-> "Continue", secs |-> 0]
    ELSE IF retries >= MAX_RETRIES
         THEN [action |-> "MaxRetriesExceeded", secs |-> 0]
         ELSE [action |-> "Retry", secs |-> BackoffSecs(retries)]

NoResponse == [status |-> 0, automated |-> FALSE, signed_out |-> FALSE, parses |-> FALSE]

\* make_request, line 782: the age of the credentials that triggers a refresh.
TOKEN_REFRESH_SECS == 300

AuthTypes == {"OAuth", "Browser"}

\* Seconds since last_token_refresh when make_request is called.
TokenAges == {0, 250, 301}

InitRequest ==
    /\ req_state = "idle"
    /\ retry_count = 0
    /\ sent = 0
    /\ limited = 0
    /\ backoff = 0
    /\ waits = <<>>
    /\ response = NoResponse
    /\ sent_ages = <<>>

\* A client of either kind, its credentials of any age.
InitClient ==
    /\ auth_type \in AuthTypes
    /\ token_age \in TokenAges

\* A client that is not looked at.
NoClient ==
    /\ auth_type = "Browser"
    /\ token_age = 0

\* make_request, lines 780-785: the condition of the proactive refresh.
RefreshDue(auth, age) == auth = "OAuth" /\ age > TOKEN_REFRESH_SECS

\* make_request is called: lines 780-794, up to the loop.  The refresh
\* (update_refresh_token) may fail, and the error leaves make_request.
BeginRequest ==
    /\ req_state = "idle"
    /\ retry_count' = 0
    /\ IF RefreshDue(auth_type, token_age)
       THEN \/ /\ token_age' = 0
               /\ req_state' = "attempting"
            \/ /\ req_state' = "refresh_error"
               /\ UNCHANGED token_age
       ELSE /\ req_state' = "attempting"
            /\ UNCHANGED token_age
    /\ UNCHANGED <<sent, limited, backoff, waits, response, auth_type, sent_ages>>
    /\ UNCHANGED <<envVars, remoteVars, syncVars, adapterVars>>

\* An order of the checks in which the rate limit is looked at first.
RateLimitFirst(res, retries) ==
    LET decision == HandleRateLimit(res, retries)
    IN  IF decision.action = "Retry" THEN "backoff"
        ELSE IF decision.action = "MaxRetriesExceeded" THEN "exhausted"
        ELSE IF AuthenticationError(res) THEN "auth_error"
        ELSE IF IsClientError(res.status) \/ IsServerError(res.status)
             THEN "http_error"
        ELSE IF res.parses THEN "succeeded"
        ELSE "parse_error"

\* make_request, lines 818-866: what a received response leads to, in the
\* order of the checks.
Outcome(res, retries) ==
    LET decision == HandleRateLimit(res, retries)
    IN  IF AuthenticationError(res) THEN "auth_error"
        ELSE IF decision.action = "Retry" THEN "backoff"
        ELSE IF decision.action = "MaxRetriesExceeded" THEN "exhausted"
        ELSE IF IsClientError(res.status) \/ IsServerError(res.status)
             THEN "http_error"
        ELSE IF res.parses THEN "succeeded"
        ELSE "parse_error"

\* One iteration of the loop, lines 795-866: the request is sent and the
\* response classified.  request.send() or res.text() may fail instead.
SendAttempt ==
    /\ req_state = "attempting"
    /\ sent' = sent + 1
    /\ sent_ages' = Append(sent_ages, token_age)
    /\ \/ /\ req_state' = "transport_error"
          /\ UNCHANGED <<retry_count, limited, backoff, waits, response>>
       \/ \E res \in Responses :
            LET decision == HandleRateLimit(res, retry_count)
                outcome == Outcome(res, retry_count)
            IN  /\ response' = res
                /\ req_state' = outcome
                /\ limited' = IF outcome \in {"backoff", "exhausted"}
                              THEN limited + 1 ELSE limited
                /\ backoff' = IF outcome = "backoff" THEN decision.secs ELSE backoff
                /\ UNCHANGED <<retry_count, waits>>
    /\ UNCHANGED <<auth_type, token_age>>
    /\ UNCHANGED <<envVars, remoteVars, syncVars, adapterVars>>

\* Lines 823-826: the sleep is over, retry_count += 1, continue.  The time
\* slept adds to the age of the credentials.
BackoffSleep ==
    /\ req_state = "backoff"
    /\ waits' = Append(waits, backoff)
    /\ token_age' = token_age + backoff
    /\ retry_count' = retry_count + 1
    /\ req_state' = "attempting"
    /\ UNCHANGED <<sent, limited, backoff, response, auth_type, sent_ages>>
    /\ UNCHANGED <<envVars, remoteVars, syncVars, adapterVars>>

(***************************************************************************)
(* Page aggregation: YtMusicApi::paginated_request (continuation token),   *)
(* TidalApi::paginated_request (offset and limit), and get_playlists_info  *)
(* on top of either.                                                       *)
(***************************************************************************)
\* The page size passed as limit, and the most requests one listing is
\* followed for.
PageLimit == 2
MaxPages == 3

PageApis == {"YtMusic", "Tidal"}

\* total_number_of_items as a first page may report it, consistent or not.
Totals == 0..(PageLimit * MaxPages)

\* What later pages may report.
LaterTotals == {0, PageLimit * MaxPages}

\* The items of the n-th page received: up to PageLimit playlists, either
\* new ones or the first playlists of the listing once more (a page that
\* the platform repeats).  Every item records where it was received.
PagesOf(n) ==
    {[j \in 1..k |-> [id |-> IF repeated THEN j ELSE (n - 1) * PageLimit + j,
                      at |-> <<n, j>>]] :
        k \in 0..PageLimit, repeated \in BOOLEAN}

RECURSIVE Concat(_)
Concat(seqs) == IF seqs = <<>> THEN <<>> ELSE Head(seqs) \o Concat(Tail(seqs))

\* The item lists of pages first..last of the log.
ItemsOfPages(pages, first, last) ==
    Concat([i \in 1..(last - first + 1) |-> pages[first + i - 1].items])

PageIdle ==
    /\ pg_state = "idle"
    /\ pg_items = <<>>
    /\ pg_token = FALSE
    /\ pg_offset = 0
    /\ pg_total = 0
    /\ pg_pages = <<>>
    /\ pg_offsets = <<>>
    /\ pg_result = <<>>

PageInit == pg_api \in PageApis /\ PageIdle

NoPage == pg_api = "YtMusic" /\ PageIdle

\* YtMusicResponse::get_continuation: the continuation token of a page, if
\* it carries one.
GetContinuation(page) == page.token

\* YtMusicResponse::merge: the items of the continuation page are added to
\* the items held.
Merge(items, page) == items \o page.items

\* A page as the YtMusic aggregator receives it.
YtPage(items, token) == [items |-> items, token |-> token, total |-> 0]

\* YtMusic paginated_request, lines 757-758: the first page.
YtFirstPage ==
    /\ pg_api = "YtMusic"
    /\ pg_state = "idle"
    /\ pg_offsets' = Append(pg_offsets, 0)
    /\ \/ /\ pg_state' = "failed"
          /\ UNCHANGED <<pg_items, pg_token, pg_pages>>
       \/ \E items \in PagesOf(1), token \in BOOLEAN :
            /\ pg_pages' = Append(pg_pages, YtPage(items, token))
            /\ pg_items' = items
            /\ pg_token' = GetContinuation(YtPage(items, token))
            /\ pg_state' = IF pg_token' THEN "fetching" ELSE "fetched"
    /\ UNCHANGED <<pg_api, pg_offset, pg_total, pg_result>>
    /\ UNCHANGED <<envVars, remoteVars, syncVars, reqVars, addVars, searchVars>>

\* YtMusic paginated_request, lines 760-765: one turn of the while loop.
YtNextPage ==
    /\ pg_api = "YtMusic"
    /\ pg_state = "fetching"
    /\ Len(pg_pages) < MaxPages
    /\ pg_offsets' = Append(pg_offsets, Len(pg_pages))
    /\ \/ /\ pg_state' = "failed"
          /\ UNCHANGED <<pg_items, pg_token, pg_pages>>
       \/ \E items \in PagesOf(Len(pg_pages) + 1), token \in BOOLEAN :
            /\ pg_pages' = Append(pg_pages, YtPage(items, token))
            /\ pg_items' = Merge(pg_items, YtPage(items, token))
            /\ pg_token' = GetContinuation(YtPage(items, token))
            /\ pg_state' = IF pg_token' THEN "fetching" ELSE "fetched"
    /\ UNCHANGED <<pg_api, pg_offset, pg_total, pg_result>>
    /\ UNCHANGED <<envVars, remoteVars, syncVars, reqVars, addVars, searchVars>>

\* A loop that is left only when the total is reached.
TidalIgnoresEmpty(items, offset, total) ==
    IF offset < total THEN "fetching" ELSE "fetched"

\* Tidal paginated_request, lines 191-203: after a page of the loop, whose
\* offset for the next request would be offset: break on an empty page,
\* else the while condition.
TidalAfterPage(items, offset, total) ==
    IF items = <<>> THEN "fetched"
    ELSE IF offset < total THEN "fetching" ELSE "fetched"

\* Tidal paginated_request, lines 190-196: the first page, at offset 0.
TidalFirstPage ==
    /\ pg_api = "Tidal"
    /\ pg_state = "idle"
    /\ pg_offsets' = Append(pg_offsets, 0)
    /\ \/ /\ pg_state' = "failed"
          /\ UNCHANGED <<pg_items, pg_offset, pg_total, pg_pages>>
       \/ \E items \in PagesOf(1), total \in Totals :
            /\ pg_pages' = Append(pg_pages, [items |-> items, token |-> FALSE, total |-> total])
            /\ pg_items' = items
            /\ pg_total' = total
            /\ pg_offset' = IF items = <<>> THEN 0 ELSE PageLimit
            /\ pg_state' = TidalAfterPage(items, PageLimit, total)
    /\ UNCHANGED <<pg_api, pg_token, pg_result>>
    /\ UNCHANGED <<envVars, remoteVars, syncVars, reqVars, addVars, searchVars>>

\* Tidal paginated_request, lines 197-204: one turn of the while loop.
TidalNextPage ==
    /\ pg_api = "Tidal"
    /\ pg_state = "fetching"
    /\ Len(pg_pages) < MaxPages
    /\ pg_offsets' = Append(pg_offsets, pg_offset)
    /\ \/ /\ pg_state' = "failed"
          /\ UNCHANGED <<pg_items, pg_offset, pg_pages>>
       \/ \E items \in PagesOf(Len(pg_pages) + 1), total \in LaterTotals :
            /\ pg_pages' = Append(pg_pages, [items |-> items, token |-> FALSE, total |-> total])
            /\ pg_items' = pg_items \o items
            /\ pg_offset' = IF items = <<>> THEN pg_offset ELSE pg_offset + PageLimit
            /\ pg_state' = TidalAfterPage(items, pg_offset + PageLimit, pg_total)
    /\ UNCHANGED <<pg_api, pg_token, pg_total, pg_result>>
    /\ UNCHANGED <<envVars, remoteVars, syncVars, reqVars, addVars, searchVars>>

\* A listing that is returned as it was fetched.
NoDedup(playlists) == playlists

\* get_playlists_info: the loop over the fetched playlists with seen_ids.
RECURSIVE DedupById(_)
DedupById(playlists) ==
    IF playlists = <<>> THEN <<>>
    ELSE LET deduplicated == DedupById(SubSeq(playlists, 1, Len(playlists) - 1))
             playlist == Last(playlists)
         IN  IF \E i \in DOMAIN deduplicated : deduplicated[i].id = playlist.id
             THEN deduplicated
             ELSE Append(deduplicated, playlist)

\* get_playlists_info, after paginated_request has returned Ok.
ListPlaylists ==
    /\ pg_state = "fetched"
    /\ pg_result' = DedupById(pg_items)
    /\ pg_state' = "listed"
    /\ UNCHANGED <<pg_api, pg_items, pg_token, pg_offset, pg_total, pg_pages, pg_offsets>>
    /\ UNCHANGED <<envVars, remoteVars, syncVars, reqVars, addVars, searchVars>>

(***************************************************************************)
(* add_songs_to_playlist of the three adapters: what one call does to the  *)
(* in-memory playlist and what it sends.                                   *)
(***************************************************************************)
AddApis == {"YtMusic", "Tidal", "Plex"}

\* PlexApi::add_songs_to_playlist, line 321: songs.chunks(5).
PLEX_CHUNK == 5

\* What the platform answers to a YtMusic edit_playlist request: success, a
\* "Duplicates" confirm dialog, an "already in the playlist" toast, another
\* failure status, or no usable response at all (make_request fails).
EditAnswers == {"success", "duplicates", "already", "rejected", "error"}

\* slice.chunks(n)
RECURSIVE Chunks(_, _)
Chunks(songs, n) ==
    IF songs = <<>> THEN <<>>
    ELSE IF Len(songs) <= n THEN <<songs>>
    ELSE <<SubSeq(songs, 1, n)>> \o Chunks(SubSeq(songs, n + 1, Len(songs)), n)

AddIdle ==
    /\ ad_state = "idle"
    /\ ad_songs = ad_prev
    /\ ad_stack = <<>>
    /\ ad_requests = <<>>
    /\ ad_op = "none"
    /\ ad_answers = <<>>

AddInit ==
    /\ ad_api \in AddApis
    /\ ad_prev \in SeqsUpTo(DstSongPool, 1)
    /\ ad_batch \in SeqsUpTo(DstSongPool, MaxSongs)
    /\ AddIdle

NoAdd ==
    /\ ad_api = "YtMusic"
    /\ ad_prev = <<>>
    /\ ad_batch = <<>>
    /\ AddIdle

\* add_songs_to_playlist(playlist, songs) is called.  Tidal returns Ok at
\* once for an empty batch (lines 356-358); Plex has no chunk to send then.
AddCall ==
    /\ ad_state = "idle"
    /\ ad_stack' = CASE ad_api = "YtMusic" -> <<ad_batch>>
                     [] ad_api = "Tidal" -> IF ad_batch = <<>> THEN <<>> ELSE <<ad_batch>>
                     [] ad_api = "Plex" -> Chunks(ad_batch, PLEX_CHUNK)
    /\ ad_state' = IF ad_stack' = <<>> THEN "ok" ELSE "running"
    /\ ad_op' = "add_songs_to_playlist"
    /\ UNCHANGED <<ad_api, ad_prev, ad_batch, ad_songs, ad_requests, ad_answers>>
    /\ UNCHANGED <<envVars, remoteVars, syncVars, reqVars, pageVars, searchVars>>

\* The calls that are pending once the call on top has returned Ok.
Returned(stack) == Tail(stack)

\* A bisection that handles the right half first.
RightHalfFirst(songs) ==
    LET mid == Len(songs) \div 2
    IN  <<SubSeq(songs, mid + 1, Len(songs)), SubSeq(songs, 1, mid)>>

\* YtMusic lines 1204-1208: the two recursive calls, for songs[..mid] and
\* then songs[mid..].
Halves(songs) ==
    LET mid == Len(songs) \div 2
    IN  <<SubSeq(songs, 1, mid), SubSeq(songs, mid + 1, Len(songs))>>

\* YtMusicApi::add_songs_to_playlist, lines 1165-1239: one (possibly
\* recursive) call, for the slice on top of the stack.  It appends the slice
\* to playlist.songs, sends it, and on a "Duplicates" dialog calls itself for
\* each half.  songs[0] of an empty slice panics.
YtAddRequest ==
    /\ ad_api = "YtMusic"
    /\ ad_state = "running"
    /\ LET songs == Head(ad_stack)
       IN  /\ ad_songs' = ad_songs \o songs
           /\ ad_requests' = Append(ad_requests, songs)
           /\ \E answer \in EditAnswers :
              /\ ad_answers' = Append(ad_answers, answer)
              /\ CASE answer \in {"error", "rejected"} ->
                        /\ ad_state' = "failed"
                        /\ ad_stack' = <<>>
                  [] answer = "success" ->
                        /\ ad_stack' = Returned(ad_stack)
                        /\ ad_state' = IF ad_stack' = <<>> THEN "ok" ELSE "running"
                  [] answer = "duplicates" /\ Len(songs) > 1 ->
                        /\ ad_stack' = Halves(songs) \o Returned(ad_stack)
                        /\ ad_state' = "running"
                  [] answer \in {"duplicates", "already"} /\ songs = <<>> ->
                        /\ ad_state' = "panicked"
                        /\ ad_stack' = <<>>
                  [] OTHER ->
                        /\ ad_stack' = Returned(ad_stack)
                        /\ ad_state' = IF ad_stack' = <<>> THEN "ok" ELSE "running"
    /\ UNCHANGED <<ad_api, ad_prev, ad_batch, ad_op>>
    /\ UNCHANGED <<envVars, remoteVars, syncVars, reqVars, pageVars, searchVars>>

\* TidalApi::add_songs_to_playlist, lines 360-389: the ETag is fetched, then
\* the batch is posted; either request may fail.  playlist.songs is not
\* touched.
TidalAddRequest ==
    /\ ad_api = "Tidal"
    /\ ad_state = "running"
    /\ \E answer \in {"etag_error", "post_error", "success"} :
        /\ ad_requests' = IF answer = "etag_error" THEN ad_requests
                          ELSE Append(ad_requests, Head(ad_stack))
        /\ ad_state' = IF answer = "success" THEN "ok" ELSE "failed"
    /\ ad_stack' = <<>>
    /\ UNCHANGED <<ad_api, ad_prev, ad_batch, ad_songs, ad_op, ad_answers>>
    /\ UNCHANGED <<envVars, remoteVars, syncVars, reqVars, pageVars, searchVars>>

\* PlexApi::add_songs_to_playlist, lines 321-336: one chunk is put; the
\* request may fail.  playlist.songs is not touched.
PlexAddChunk ==
    /\ ad_api = "Plex"
    /\ ad_state = "running"
    /\ ad_requests' = Append(ad_requests, Head(ad_stack))
    /\ \E ok \in BOOLEAN :
        IF ok
        THEN /\ ad_stack' = Tail(ad_stack)
             /\ ad_state' = IF ad_stack' = <<>> THEN "ok" ELSE "running"
        ELSE /\ ad_stack' = <<>>
             /\ ad_state' = "failed"
    /\ UNCHANGED <<ad_api, ad_prev, ad_batch, ad_songs, ad_op, ad_answers>>
    /\ UNCHANGED <<envVars, remoteVars, syncVars, reqVars, pageVars, searchVars>>

\* todo!() panics: the task unwinds, nothing is returned to the caller.
Todo == "panicked"

\* remove_songs_from_playlist(playlist, songs) is called.  YtMusic (lines
\* 1242-1271) removes the songs from playlist.songs, then builds the actions
\* (a song without setVideoId is an Err) and sends one request; Tidal
\* (lines 391-397) and Plex (lines 340-346) are todo!().
RemoveCall ==
    /\ ad_state = "idle"
    /\ ad_op' = "remove_songs_from_playlist"
    /\ IF ad_api = "YtMusic"
       THEN /\ ad_songs' = SelectSeq(ad_songs, LAMBDA s : ~Contains(ad_batch, s))
            /\ \E answer \in {"no_sid", "error", "rejected", "success"} :
                /\ ad_requests' = IF answer = "no_sid" THEN ad_requests
                                  ELSE Append(ad_requests, ad_batch)
                /\ ad_state' = IF answer = "success" THEN "ok" ELSE "failed"
       ELSE /\ ad_state' = Todo
            /\ UNCHANGED <<ad_songs, ad_requests>>
    /\ UNCHANGED <<ad_api, ad_prev, ad_batch, ad_stack, ad_answers>>
    /\ UNCHANGED <<envVars, remoteVars, syncVars, reqVars, pageVars, searchVars>>

\* delete_playlist(playlist) is called.  YtMusic (lines 1273-1280) and Tidal
\* (lines 400-412) send one request; Plex (lines 347-349) is todo!().
DeleteCall ==
    /\ ad_state = "idle"
    /\ ad_op' = "delete_playlist"
    /\ IF ad_api = "Plex"
       THEN /\ ad_state' = Todo
            /\ UNCHANGED ad_requests
       ELSE /\ ad_requests' = Append(ad_requests, <<>>)
            /\ \E ok \in BOOLEAN : ad_state' = IF ok THEN "ok" ELSE "failed"
    /\ UNCHANGED <<ad_api, ad_prev, ad_batch, ad_songs, ad_stack, ad_answers>>
    /\ UNCHANGED <<envVars, remoteVars, syncVars, reqVars, pageVars, searchVars>>

(***************************************************************************)
(* search_song of the three adapters: the requests one call sends and the  *)
(* song it returns.                                                        *)
(***************************************************************************)
SearchApis == {"YtMusic", "Tidal", "Plex"}

\* The candidates a text search may return, and the queries of one song.
MaxCandidates == 4
QueryCount == 2

\* YtMusic line 1316, Tidal line 450: into_iter().take(3).
TOP_RESULTS == 3

\* Song::build_queries: the queries of a song, the least specific first.
BuildQueries(song) == [i \in 1..QueryCount |-> [song |-> song.id, specificity |-> i]]

\* The answers to a text search: up to MaxCandidates songs, at most one of
\* them (at any position) the recording looked for.
CandidateLists ==
    {[j \in 1..k |-> IF j = p THEN DstSong1 ELSE DstSong2] :
        k \in 0..MaxCandidates, p \in 0..MaxCandidates}

\* The answers to an exact-ISRC search: YtMusic reads one card at most,
\* Tidal a data list of which it takes the first element.
IsrcAnswers(api) == SeqsUpTo(DstSongPool, IF api = "YtMusic" THEN 1 ELSE 2)

\* The candidates the compare loop looks at.
Considered(api, candidates) ==
    IF api = "Plex" THEN candidates
    ELSE SubSeq(candidates, 1, Min(TOP_RESULTS, Len(candidates)))

SearchIdle ==
    /\ sr_state = "idle"
    /\ sr_queries = <<>>
    /\ sr_requests = <<>>
    /\ sr_answers = <<>>
    /\ sr_result = NoSong

SearchInit ==
    /\ sr_api \in SearchApis
    /\ sr_song \in SrcSongPool
    /\ SearchIdle

NoSearch ==
    /\ sr_api = "YtMusic"
    /\ sr_song = SrcSong1
    /\ SearchIdle

\* Whether the adapter searches by ISRC for this song: YtMusic line 1289,
\* Tidal line 415; Plex never does (lines 351-352).
UsesIsrc(api, song) == api # "Plex" /\ song.isrc # NoIsrc

\* A search that goes on with the text queries when the ISRC is unknown to
\* the platform.
FallBackToQueries(song) == [state |-> "searching", queries |-> BuildQueries(song)]

\* YtMusic lines 1297-1300 and 1322, Tidal lines 424-431: the ISRC search
\* returned no song; Ok(None) is returned.
WithoutCandidate(song) == [state |-> "none", queries |-> <<>>]

\* search_song(song) is called.
SearchCall ==
    /\ sr_state = "idle"
    /\ IF UsesIsrc(sr_api, sr_song)
       THEN /\ sr_state' = "isrc"
            /\ UNCHANGED sr_queries
       ELSE /\ sr_state' = "searching"
            /\ sr_queries' = BuildQueries(sr_song)
    /\ UNCHANGED <<sr_api, sr_song, sr_requests, sr_answers, sr_result>>
    /\ UNCHANGED <<envVars, remoteVars, syncVars, reqVars, pageVars, addVars>>

\* YtMusic lines 1289-1300, Tidal lines 415-432: the exact-ISRC search.  Its
\* first song is returned as it is (YtMusic copies the ISRC into it); no
\* song means Ok(None), no text search follows.
IsrcSearch ==
    /\ sr_state = "isrc"
    /\ sr_requests' = Append(sr_requests, [kind |-> "isrc", query |-> sr_song.isrc])
    /\ \/ /\ sr_state' = "failed"
          /\ UNCHANGED <<sr_answers, sr_result, sr_queries>>
       \/ \E answer \in IsrcAnswers(sr_api) :
            /\ sr_answers' = Append(sr_answers, answer)
            /\ IF answer = <<>>
               THEN /\ sr_state' = WithoutCandidate(sr_song).state
                    /\ sr_queries' = WithoutCandidate(sr_song).queries
                    /\ UNCHANGED sr_result
               ELSE /\ sr_state' = "found"
                    /\ sr_result' = IF sr_api = "YtMusic"
                                    THEN [Head(answer) EXCEPT !.isrc = sr_song.isrc]
                                    ELSE Head(answer)
                    /\ UNCHANGED sr_queries
    /\ UNCHANGED <<sr_api, sr_song>>
    /\ UNCHANGED <<envVars, remoteVars, syncVars, reqVars, pageVars, addVars>>

\* A loop that takes the queries from the front.
FrontQuery(queries) == Head(queries)

\* queries.pop(): the last element is the one tried next.
PopQuery(queries) == Last(queries)

\* YtMusic lines 1301-1322, Tidal lines 435-455, Plex lines 352-365: one
\* turn of the loop over the queries.
TextSearch ==
    /\ sr_state = "searching"
    /\ sr_queries # <<>>
    /\ sr_queries' = SubSeq(sr_queries, 1, Len(sr_queries) - 1)
    /\ sr_requests' = Append(sr_requests, [kind |-> "text", query |-> PopQuery(sr_queries)])
    /\ \/ /\ sr_state' = "failed"
          /\ UNCHANGED <<sr_answers, sr_result>>
       \/ \E candidates \in CandidateLists :
            LET match == FirstMatch(sr_song, Considered(sr_api, candidates))
            IN  /\ sr_answers' = Append(sr_answers, candidates)
                /\ IF match # NoSong
                   THEN /\ sr_state' = "found"
                        /\ sr_result' = match
                   ELSE /\ sr_state' = IF sr_queries' = <<>> THEN "none" ELSE "searching"
                        /\ UNCHANGED sr_result
    /\ UNCHANGED <<sr_api, sr_song>>
    /\ UNCHANGED <<envVars, remoteVars, syncVars, reqVars, pageVars, addVars>>

Next ==
    \/ CheckCountry
    \/ ImportPlaylists
    \/ GetSrcPlaylists
    \/ GetDstPlaylists
    \/ GetDstLikes
    \/ FilterPlaylists
    \/ PairPlaylist
    \/ CreatePlaylist
    \/ SongPresent
    \/ SearchSong
    \/ AddSongs
    \/ NoNewSongs
    \/ LikeAdded
    \/ PlaylistsDone
    \/ GetSrcLikes
    \/ GetMirrorDstLikes
    \/ LikePresent
    \/ LikeSearch
    \/ AddLikes
    \/ ImportDone
    \/ Rerun
    \/ RunAgain

vars == <<envVars, remoteVars, syncVars, reqVars, adapterVars>>

\* The orchestrator, no request of the YtMusic client being looked at.
\* No adapter call is looked at on its own.
IdleAdapters == NoPage /\ NoAdd /\ NoSearch

Init == InitEnv /\ InitSync /\ InitRequest /\ NoClient /\ IdleAdapters

Spec == Init /\ [][Next]_vars

\* A single request of the YtMusic client, the orchestrator not running.
NoInputs ==
    /\ config = [like_all |-> FALSE, sync_likes |-> FALSE,
                 skip_playlists |-> <<>>, dst_owner |-> Me, diff_country |-> FALSE]
    /\ srcSnapshot = <<>>
    /\ remotePlaylists = <<>>
    /\ isrcHit = NoSong
    /\ ranking = <<>>
    /\ NoLikes
    /\ platform = SyncToYtMusic

RequestInit == NoInputs /\ InitSync /\ InitRequest /\ InitClient /\ IdleAdapters

RequestNext ==
    \/ BeginRequest
    \/ SendAttempt
    \/ BackoffSleep

RequestSpec == RequestInit /\ [][RequestNext]_vars

\* One listing of an adapter.
PageSpecInit ==
    NoInputs /\ InitSync /\ InitRequest /\ NoClient /\ PageInit /\ NoAdd /\ NoSearch

PageNext ==
    \/ YtFirstPage
    \/ YtNextPage
    \/ TidalFirstPage
    \/ TidalNextPage
    \/ ListPlaylists

PageSpec == PageSpecInit /\ [][PageNext]_vars

\* One add_songs_to_playlist call of an adapter.
AddSpecInit ==
    NoInputs /\ InitSync /\ InitRequest /\ NoClient /\ NoPage /\ AddInit /\ NoSearch

AddNext ==
    \/ AddCall
    \/ YtAddRequest
    \/ TidalAddRequest
    \/ PlexAddChunk
    \/ RemoveCall
    \/ DeleteCall

AddSpec == AddSpecInit /\ [][AddNext]_vars

\* The same, every pending (recursive) call being run: the await points of
\* add_songs_to_playlist are a request and a 3-second sleep.
AddLiveSpec == AddSpec /\ WF_vars(AddNext)

\* One search_song call of an adapter.
SearchSpecInit ==
    NoInputs /\ InitSync /\ InitRequest /\ NoClient /\ NoPage /\ NoAdd /\ SearchInit

SearchNext ==
    \/ SearchCall
    \/ IsrcSearch
    \/ TextSearch

SearchSpec == SearchSpecInit /\ [][SearchNext]_vars


(***************************************************************************)
(* Properties of the orchestrator (checked under Spec).                    *)
(***************************************************************************)
MutationOps == {"create_playlist", "add_songs_to_playlist", "add_likes"}

\* The calls made while a source playlist is being synchronized.
PlaylistOps == {"create_playlist", "search_song", "add_songs_to_playlist"}

CallIssued == Len(calls') = Len(calls) + 1

\* C1: when the first run has completed and the second run, with the same
\* source snapshot and against the destination the first run left, has
\* completed too, the second run has issued no mutation call: no
\* create_playlist, no add_songs_to_playlist, no add_likes.
C1_SecondRunIssuesNoMutation ==
    (run = 2 /\ pc = "done") =>
        \A i \in DOMAIN calls : calls[i].run = 2 => calls[i].op \notin MutationOps

\* C2: the batch passed to add_songs_to_playlist holds no song equal to a
\* song the destination playlist already has when the batch is built, holds
\* no two equal songs, and is a subsequence of the search results, which are
\* in source order.
C2_BatchIsNewAndDistinct ==
    [][ (CallIssued /\ Last(calls').op = "add_songs_to_playlist") =>
            LET batch == Last(calls').songs
            IN  /\ \A i \in DOMAIN batch : \A j \in DOMAIN dst_playlist.songs :
                        ~SongEq(dst_playlist.songs[j], batch[i])
                /\ \A i, j \in DOMAIN batch : i # j => ~SongEq(batch[i], batch[j])
                /\ IsSubseq(batch, dst_songs)
      ]_vars

\* C2 witness: a batch was submitted that is not empty and leaves out some
\* search result.
C2_Witness ==
    /\ calls # <<>>
    /\ Last(calls).op = "add_songs_to_playlist"
    /\ Last(calls).songs # <<>>
    /\ Len(Last(calls).songs) < Len(dst_songs)

\* A successful mutation call is visible in the destination account.
Applied(call) ==
    CASE call.op = "create_playlist" ->
            \E i \in DOMAIN remotePlaylists : remotePlaylists[i].name = call.pl
      [] call.op = "add_songs_to_playlist" ->
            \E i \in DOMAIN remotePlaylists :
                /\ remotePlaylists[i].id = call.target
                /\ IsSubseq(call.songs, remotePlaylists[i].songs)
      [] call.op = "add_likes" -> IsSubseq(call.songs, remoteLikes)
      [] OTHER -> TRUE

\* C3: a client call that returns an error is the last call of the run: the
\* run has returned the error and no step of it is left; what the earlier
\* calls changed in the destination account is still there.
C3_ErrorEndsRun ==
    /\ \A i \in DOMAIN calls :
          ~calls[i].ok => (i = Len(calls) /\ pc = "failed" /\ ~ENABLED Next)
    /\ \A i \in DOMAIN calls : calls[i].ok => Applied(calls[i])

\* C3 witness: the run failed after a playlist had been created and filled.
C3_Witness ==
    /\ pc = "failed"
    /\ \E i \in DOMAIN calls :
          /\ calls[i].op = "add_songs_to_playlist"
          /\ calls[i].ok
          /\ calls[i].songs # <<>>

\* C4: a destination playlist that is not owned by dst_owner is never passed
\* to add_songs_to_playlist, and no create_playlist, search_song or
\* add_songs_to_playlist call is made for a source playlist of its name.
C4_NotOwnedNameIsDropped ==
    \A d \in DOMAIN remotePlaylists :
        remotePlaylists[d].owner # config.dst_owner =>
            \A i \in DOMAIN calls :
                calls[i].op \in PlaylistOps =>
                    /\ calls[i].pl # remotePlaylists[d].name
                    /\ calls[i].target # remotePlaylists[d].id

\* C5: no create_playlist, search_song or add_songs_to_playlist call is made
\* for a source playlist whose name equals a skip-list entry when letter
\* case is ignored.
C5_SkipListIgnoresCase ==
    \A i \in DOMAIN calls :
        calls[i].op \in PlaylistOps =>
            \A k \in DOMAIN config.skip_playlists :
                ToLower(calls[i].pl) # ToLower(config.skip_playlists[k])

\* C5 witness: a run is over whose source held a playlist with songs, named
\* like a skip-list entry but in another letter case.
C5_Witness ==
    /\ pc = "done"
    /\ \E s \in DOMAIN srcSnapshot : \E k \in DOMAIN config.skip_playlists :
          /\ srcSnapshot[s].songs # <<>>
          /\ srcSnapshot[s].name # config.skip_playlists[k]
          /\ ToLower(srcSnapshot[s].name) = ToLower(config.skip_playlists[k])

\* C6: no create_playlist, search_song or add_songs_to_playlist call is made
\* for a source playlist whose name equals an entry of SKIPPED_PLAYLISTS when
\* letter case is ignored.
C6_PlatformNamesIgnoreCase ==
    \A i \in DOMAIN calls :
        calls[i].op \in PlaylistOps =>
            \A k \in DOMAIN SKIPPED_PLAYLISTS :
                ToLower(calls[i].pl) # ToLower(SKIPPED_PLAYLISTS[k])

\* C7: a source playlist that is processed takes a remaining destination
\* playlist of exactly its name when there is one, and that one is removed
\* from the remaining ones; create_playlist is called exactly when there is
\* none; no destination playlist is taken twice in a run.
C7_PairOnceOrCreate ==
    [][ (pc = "loop" /\ src_playlists # <<>>) =>
            LET name == Head(src_playlists).name
                remaining == {i \in DOMAIN dst_playlists : dst_playlists[i].name = name}
                created == CallIssued /\ Last(calls').op = "create_playlist"
            IN  /\ created <=> remaining = {}
                /\ created => Last(calls').pl = name
                /\ remaining # {} =>
                      /\ dst_playlist' \in {dst_playlists[i] : i \in remaining}
                      /\ Len(dst_playlists') = Len(dst_playlists) - 1
                      /\ \A i \in DOMAIN dst_playlists' :
                            dst_playlists'[i].id # dst_playlist'.id
                /\ pc' = "songs" =>
                      /\ dst_playlist'.name = name
                      /\ \A t \in DOMAIN targets : targets[t] # dst_playlist'.id
      ]_vars

\* C7 witness: two source playlists of one name were processed; the first
\* took the destination playlist of that name, the second had one created.
C7_Witness ==
    /\ Len(targets) = 2
    /\ pc = "songs"
    /\ Last(calls).op = "create_playlist"
    /\ Last(calls).pl = src_playlist.name
    /\ \E i \in DOMAIN remotePlaylists :
          /\ remotePlaylists[i].id = targets[1]
          /\ remotePlaylists[i].name = src_playlist.name
          /\ targets[1] # targets[2]

(***************************************************************************)
(* Properties of one request (checked under RequestSpec).                  *)
(***************************************************************************)
U64_BITS == 64

\* C8: whatever the responses, one request sends at most 6 attempts; it ends
\* exhausted only with 6 attempts sent, all of them rate-limited, and then
\* sends no attempt any more.
C8_AtMostSixAttempts ==
    /\ sent <= 6
    /\ req_state = "exhausted" =>
          /\ sent = 6
          /\ limited = 6
          /\ ~ENABLED RequestNext

\* C8 witness: the request ended exhausted.
C8_Witness == req_state = "exhausted" /\ sent = MAX_RETRIES + 1

C10_SevenResponsesSixWaits ==
    req_state = "exhausted" =>
        /\ waits = <<3, 9, 27, 81, 243, 729>>
        /\ limited = 7

\* C10 amended: with every response rate-limited, the waits taken after
\* attempts 0..4 are 3, 9, 27, 81 and 243 seconds and the 6th rate-limited
\* response ends the request exhausted; no wait of 729 seconds is taken.
C10_SixResponsesFiveWaits ==
    /\ req_state = "exhausted" =>
          /\ waits = <<3, 9, 27, 81, 243>>
          /\ limited = 6
    /\ \A i \in DOMAIN waits : waits[i] # 729

\* C10 witness: the request ended exhausted after five waits.
C10_Witness == req_state = "exhausted" /\ Len(waits) = 5 /\ response.status = 429

\* C11: a response is classified as rate-limited exactly when its status is
\* 429 or its body holds the "automated queries" text, whatever the status
\* in the latter case.
C11_RateLimitedIffStatusOrSignature ==
    /\ req_state \in {"backoff", "exhausted"} =>
          (response.status = 429 \/ response.automated)
    /\ req_state \in {"http_error", "succeeded", "parse_error"} =>
          ~(response.status = 429 \/ response.automated)

\* C12: a response with an authentication-failure signal ends the request
\* with the authentication error, whatever its status and however many
\* backoffs went before: no sleep and no attempt follow.
C12_AuthErrorIsImmediate ==
    /\ response.signed_out => (req_state = "auth_error" /\ ~ENABLED RequestNext)
    /\ req_state = "auth_error" => (response.signed_out /\ Len(waits) = sent - 1)

\* C12 witness: after a backoff, a response that is both a 429 and an
\* authentication failure ended the request with the authentication error.
C12_Witness ==
    /\ req_state = "auth_error"
    /\ response.status = 429
    /\ Len(waits) >= 1

\* C13: with OAuth credentials no attempt, retries after backoff sleeps
\* included, is sent while more than 5 minutes have passed since the last
\* refresh.
C13_NoStaleAttempt ==
    auth_type = "OAuth" =>
        \A i \in DOMAIN sent_ages : sent_ages[i] <= TOKEN_REFRESH_SECS

(***************************************************************************)
(* Properties of one listing (checked under PageSpec).                     *)
(***************************************************************************)
CeilDiv(a, b) == (a + b - 1) \div b

\* C14: the YtMusic aggregator fetches a further page only after a page that
\* had a continuation token and items: it stops at the first page without a
\* token or without items.
C14_StopsAtEmptyOrTokenless ==
    pg_api = "YtMusic" =>
        \A i \in 1..(Len(pg_offsets) - 1) :
            pg_pages[i].token /\ pg_pages[i].items # <<>>

\* C15: when the pages received are N non-empty pages and then an empty one,
\* no page is requested after the empty one and the merged result is the
\* items of pages 1..N, each once and in page order.
C15_EmptyPageEndsListing ==
    \A n \in DOMAIN pg_pages :
        (/\ n > 1
         /\ pg_pages[n].items = <<>>
         /\ \A m \in 1..(n - 1) : pg_pages[m].items # <<>>) =>
            /\ Len(pg_offsets) = n
            /\ pg_state \in {"fetched", "listed"} =>
                  pg_items = ItemsOfPages(pg_pages, 1, n - 1)

\* C16 as stated: the Tidal aggregator sends at most ceil(total/L) requests,
\* total being what the first page reports, and one request when the first
\* page is empty.
C16_AtMostCeilRequests ==
    (pg_api = "Tidal" /\ pg_pages # <<>>) =>
        Len(pg_offsets) <= IF pg_pages[1].items = <<>> THEN 1
                           ELSE CeilDiv(pg_pages[1].total, PageLimit)

\* C16 amended: the Tidal aggregator requests the offsets 0, L, 2L, ...; a
\* request after the first is sent only at an offset below the total of the
\* first page and after a page with items; it has stopped once a page is
\* empty or the next offset has reached that total; it sends at most
\* max(1, ceil(total/L)) requests.
C16_OffsetsUpToFirstTotal ==
    pg_api = "Tidal" =>
        /\ \A i \in DOMAIN pg_offsets : pg_offsets[i] = (i - 1) * PageLimit
        /\ \A i \in DOMAIN pg_offsets :
              i > 1 => /\ pg_offsets[i] < pg_pages[1].total
                       /\ pg_pages[i - 1].items # <<>>
        /\ (pg_pages # <<>> /\ pg_state # "failed") =>
              /\ pg_total = pg_pages[1].total
              /\ (pg_state = "fetching") <=>
                    /\ Last(pg_pages).items # <<>>
                    /\ Len(pg_pages) * PageLimit < pg_total
        /\ pg_pages # <<>> =>
              Len(pg_offsets) <= IF CeilDiv(pg_pages[1].total, PageLimit) > 1
                                 THEN CeilDiv(pg_pages[1].total, PageLimit) ELSE 1

\* C16 witness: a listing ended at the total of its first page although the
\* last page reported another total, and one ended at an early empty page.
C16_Witness ==
    /\ pg_api = "Tidal"
    /\ pg_state = "fetched"
    /\ Len(pg_pages) = MaxPages
    /\ Last(pg_pages).items # <<>>
    /\ Last(pg_pages).total # pg_total

\* C17: get_playlists_info returns the fetched playlists without the later
\* ones of an id already seen: no id twice, the first occurrence of each id,
\* the order kept, no id lost.
C17_DedupKeepsFirstById ==
    pg_state = "listed" =>
        /\ \A i, j \in DOMAIN pg_result : i # j => pg_result[i].id # pg_result[j].id
        /\ \A i \in DOMAIN pg_result : \E k \in DOMAIN pg_items :
              /\ pg_items[k] = pg_result[i]
              /\ \A h \in 1..(k - 1) : pg_items[h].id # pg_result[i].id
        /\ IsSubseq(pg_result, pg_items)
        /\ \A k \in DOMAIN pg_items : \E i \in DOMAIN pg_result :
              pg_result[i].id = pg_items[k].id

\* C17 witness: a listing with a repeated page was returned, shorter than
\* it was fetched.
C17_Witness ==
    /\ pg_state = "listed"
    /\ Len(pg_result) >= 2
    /\ Len(pg_result) < Len(pg_items)

\* C18: for every adapter, once add_songs_to_playlist has returned, with
\* success or with an error, the in-memory song list of the playlist is its
\* previous song list followed by the songs of the batch.
C18_ListIsPreviousThenBatch ==
    (ad_op = "add_songs_to_playlist" /\ ad_state \in {"ok", "failed"})
        => ad_songs = ad_prev \o ad_batch

\* C19: when the song has an ISRC, the first request of search_song is the
\* exact-ISRC search, and a candidate that search returns is the result of
\* the call, whether compare accepts it or not.
C19_IsrcSearchFirstUnfiltered ==
    (sr_song.isrc # NoIsrc /\ sr_requests # <<>>) =>
        /\ sr_requests[1] = [kind |-> "isrc", query |-> sr_song.isrc]
        /\ (sr_answers # <<>> /\ sr_answers[1] # <<>>) =>
                /\ sr_state = "found"
                /\ SameTrack(sr_result, Head(sr_answers[1]))

\* The i-th request of a text search that takes the queries of build_queries
\* from the last to the first.
ReverseQuery(song, i) ==
    [kind |-> "text", query |-> BuildQueries(song)[QueryCount + 1 - i]]

\* C20 (as stated): without an ISRC the queries are tried from the last to
\* the first; the result is the first candidate of an answer that compare
\* accepts, no request follows it; no result is returned only when no
\* candidate of any answer satisfies compare.
C20_FirstMatchAmongAllCandidates ==
    sr_song.isrc = NoIsrc =>
        /\ \A i \in DOMAIN sr_requests : sr_requests[i] = ReverseQuery(sr_song, i)
        /\ sr_state = "found" =>
                /\ Len(sr_requests) = Len(sr_answers)
                /\ sr_result = FirstMatch(sr_song, Last(sr_answers))
                /\ \A i \in 1..(Len(sr_answers) - 1) :
                        FirstMatch(sr_song, sr_answers[i]) = NoSong
        /\ sr_state = "none" =>
                \A i \in DOMAIN sr_answers :
                    FirstMatch(sr_song, sr_answers[i]) = NoSong

\* C20 (amended): without an ISRC the queries are tried from the last to
\* the first; of each answer the candidates looked at are the first three
\* (YtMusic, Tidal) or all of them (Plex); the result is the first of these
\* that compare accepts, and no request follows it; no result is returned,
\* as a value, exactly when every query was sent and none of the candidates
\* looked at satisfies compare; a failed request is an error.
C20_FirstMatchAmongConsidered ==
    sr_song.isrc = NoIsrc =>
        /\ \A i \in DOMAIN sr_requests : sr_requests[i] = ReverseQuery(sr_song, i)
        /\ sr_state = "found" =>
                /\ Len(sr_requests) = Len(sr_answers)
                /\ sr_result = FirstMatch(sr_song, Considered(sr_api, Last(sr_answers)))
                /\ sr_result # NoSong
                /\ Compare(sr_song, sr_result)
                /\ \A i \in 1..(Len(sr_answers) - 1) :
                        FirstMatch(sr_song, Considered(sr_api, sr_answers[i])) = NoSong
                /\ ~ENABLED SearchNext
        /\ sr_state = "none" =>
                /\ Len(sr_requests) = QueryCount
                /\ Len(sr_answers) = QueryCount
                /\ sr_result = NoSong
                /\ \A i \in DOMAIN sr_answers :
                        FirstMatch(sr_song, Considered(sr_api, sr_answers[i])) = NoSong
        /\ sr_state = "failed" => Len(sr_requests) = Len(sr_answers) + 1
        /\ (sr_state = "searching" /\ sr_answers # <<>>) =>
                FirstMatch(sr_song, Considered(sr_api, Last(sr_answers))) = NoSong

\* A song without ISRC is found by the second query, after the first query
\* returned its match in fourth place only.
C20_Witness ==
    /\ sr_song.isrc = NoIsrc
    /\ sr_api \in {"YtMusic", "Tidal"}
    /\ sr_state = "found"
    /\ Len(sr_requests) = 2
    /\ sr_requests[1].query.specificity = QueryCount
    /\ Len(sr_answers[1]) = MaxCandidates
    /\ Compare(sr_song, sr_answers[1][MaxCandidates])
    /\ Compare(sr_song, sr_result)

(***************************************************************************)
(* Properties of the orchestrator's loop body and likes (checked under     *)
(* Spec).                                                                  *)
(***************************************************************************)
\* C21: when every song of the source playlist being processed is contained
\* in its destination playlist, no search was made for it and no batch is
\* submitted; and no add_songs_to_playlist call is ever made with an empty
\* batch.
C21_NoCallForEmptyBatch ==
    /\ (pc = "songs" /\ \A k \in DOMAIN src_playlist.songs :
                            Contains(dst_playlist.songs, src_playlist.songs[k])) =>
          /\ attempts = 0
          /\ dst_songs = <<>>
          /\ ~ENABLED AddSongs
          /\ (calls # <<>> /\ Last(calls).op = "create_playlist") =>
                Last(calls).pl # src_playlist.name
    /\ \A i \in DOMAIN calls :
          calls[i].op = "add_songs_to_playlist" => calls[i].songs # <<>>

\* The calls of run r made for the source playlist processed k-th.
CallsFor(r, k) == {i \in DOMAIN calls : calls[i].run = r /\ calls[i].item = k}

\* C22: for each source playlist, every search_song call for its songs is
\* made before its add_songs_to_playlist call, there is at most one such
\* call, and when it is made the loop over the source songs has ended and
\* the whole batch goes into it.
C22_SearchesThenOneAdd ==
    /\ [](\A j \in DOMAIN calls :
            calls[j].op = "add_songs_to_playlist" =>
                \A i \in CallsFor(calls[j].run, calls[j].item) :
                    /\ calls[i].op = "search_song" => i < j
                    /\ calls[i].op = "add_songs_to_playlist" => i = j)
    /\ [][ (CallIssued /\ Last(calls').op = "add_songs_to_playlist") =>
                /\ idx > Len(src_playlist.songs)
                /\ Last(calls').songs = to_sync'
                /\ pc' # "songs"
         ]_vars

\* C22 witness: a batch was submitted for a playlist after two searches.
C22_Witness ==
    \E j \in DOMAIN calls :
        /\ calls[j].op = "add_songs_to_playlist"
        /\ Cardinality({i \in CallsFor(calls[j].run, calls[j].item) :
                            calls[i].op = "search_song" /\ i < j}) = 2

\* The elements of a finite set of numbers, in increasing order.
RECURSIVE Ascending(_)
Ascending(S) ==
    IF S = {} THEN <<>>
    ELSE LET least == CHOOSE x \in S : \A y \in S : x <= y
         IN  <<least>> \o Ascending(S \ {least})

\* The names of the playlists run r made calls for, in the order of
\* processing.
NamesProcessed(r) ==
    LET items == Ascending({calls[i].item : i \in {j \in DOMAIN calls :
                                calls[j].run = r /\ calls[j].item > 0}})
    IN  [k \in DOMAIN items |->
            calls[CHOOSE i \in CallsFor(r, items[k]) : TRUE].pl]

\* C23: within a run the calls made for playlists come playlist after
\* playlist, never going back to an earlier one, and the playlists come in
\* the order of the source: their names are a subsequence of the names of
\* the source snapshot.
C23_PlaylistsInSourceOrder ==
    /\ [][ (CallIssued /\ Last(calls').item > 0) =>
                \A i \in DOMAIN calls :
                    (calls[i].run = Last(calls').run /\ calls[i].item > 0) =>
                        /\ calls[i].item <= Last(calls').item
                        /\ calls[i].item = Last(calls').item =>
                                calls[i].pl = Last(calls').pl
         ]_vars
    /\ [](\A r \in {1, 2} :
            IsSubseq(NamesProcessed(r),
                     [s \in DOMAIN srcSnapshot |-> srcSnapshot[s].name]))

\* C23 witness: a run made calls for two playlists of different names.
C23_Witness ==
    \E i, j \in DOMAIN calls :
        /\ calls[i].run = calls[j].run
        /\ calls[i].item = 1
        /\ calls[j].item = 2
        /\ calls[i].pl # calls[j].pl

\* The cooldowns of run r, in the order they were taken.
CooldownsOf(r) == SelectSeq(cooldowns, LAMBDA c : c.run = r)

\* The playlist searches of run r.
SearchesIn(r) ==
    Cardinality({i \in DOMAIN calls :
        calls[i].run = r /\ calls[i].op = "search_song" /\ calls[i].item > 0})

\* C24: with a YtMusic destination the searches of a run are counted across
\* its playlists; a cooldown is taken exactly when the count of the run
\* reaches a multiple of 200, and the k-th cooldown of the run lasts
\* 180 + 60 * (k - 1) seconds.
C24_CooldownEvery200thSearchOfRun ==
    platform.dst.type = "YtMusic" =>
        \A r \in 1..run :
            /\ Len(CooldownsOf(r)) = SearchesIn(r) \div 200
            /\ \A k \in DOMAIN CooldownsOf(r) :
                /\ CooldownsOf(r)[k].nth = 200 * k
                /\ CooldownsOf(r)[k].secs = 180 + 60 * (k - 1)

\* C25: a run of synchronize_playlists starts with search count 0 and the
\* initial cooldown duration, whatever an earlier run of the process did.
C25_RunStartsWithFreshPacing ==
    pc \in {"entry", "start", "dst_playlists"} =>
        /\ SONG_COUNTER = 0
        /\ SLEEP_DURATION = 180

\* The search calls made for playlist k of run r.
SearchesFor(r, k) ==
    Cardinality({i \in DOMAIN calls :
        calls[i].run = r /\ calls[i].item = k /\ calls[i].op = "search_song"})

\* C26: for each processed playlist, attempted is the number of search_song
\* calls made for it (songs already in the destination playlist are not
\* counted), matched the number of those that returned a song, so that
\* 0 <= matched <= attempted <= the number of deduplicated source songs; the
\* statistic is matched/attempted (1/2 is 50%), and no ratio is computed
\* when attempted is 0.
C26_ConversionStatistic ==
    /\ [](/\ \A i \in DOMAIN stats :
              LET report == stats[i].report
                  matched == report.number[1]
                  attempted == report.number[2]
              IN  /\ attempted = SearchesFor(stats[i].run, stats[i].item)
                  /\ 0 <= matched /\ matched <= attempted
                  /\ report.ratio <=> attempted # 0
                  /\ report.ratio => report.percent = <<matched * 100, attempted>>
                  /\ report.number = <<1, 2>> => report.percent[1] = 50 * report.percent[2]
          /\ pc = "songs" =>
              /\ attempts = SearchesFor(run, Len(targets))
              /\ attempts = Cardinality({k \in 1..(idx - 1) :
                                ~Contains(dst_playlist.songs, src_playlist.songs[k])})
              /\ success = Len(dst_songs))
    /\ [][/\ (calls' # calls /\ Last(calls').op = "search_song" /\ pc = "songs") =>
              /\ attempts' = attempts + 1
              /\ success' = success +
                    (IF Last(calls').ok
                        /\ SearchResult(Last(calls').songs[1], isrcHit, ranking) # NoSong
                     THEN 1 ELSE 0)
          /\ stats' # stats =>
              /\ stats' = Append(stats, Last(stats'))
              /\ Last(stats').run = run /\ Last(stats').item = Len(targets)
              /\ Last(stats').report.name = src_playlist.name
              /\ Last(stats').report.number = <<success, attempts>>
              /\ attempts <= Len(src_playlist.songs)
              /\ src_playlist.songs = DedupSongs(src_playlist.songs)
              /\ \A j \in DOMAIN stats :
                    ~(stats[j].run = run /\ stats[j].item = Len(targets))]_vars

C26_Witness ==
    \E i \in DOMAIN stats :
        /\ stats[i].report.number = <<1, 2>>
        /\ stats[i].report.ratio
        /\ SearchesFor(stats[i].run, stats[i].item) = 2

\* The client operations the orchestrator calls.
OrchestratorOps ==
    {"get_playlists_full", "get_likes", "search_song"} \cup MutationOps

\* C27: on any path the orchestrator calls neither remove_songs_from_playlist
\* nor delete_playlist on either client; the only mutations it issues are
\* create_playlist, add_songs_to_playlist and add_likes, on the destination.
C27_OnlyAdditiveMutationsOnDestination ==
    \A i \in DOMAIN calls :
        /\ calls[i].op \in OrchestratorOps
        /\ calls[i].op \notin {"remove_songs_from_playlist", "delete_playlist"}
        /\ calls[i].op \in MutationOps \cup {"search_song"} => calls[i].api = "dst"
        /\ calls[i].api = "src" => calls[i].op \in {"get_playlists_full", "get_likes"}
        /\ platform.command = "import" => calls[i].api = "dst"

C27_Witness ==
    /\ pc = "done"
    /\ \A op \in MutationOps : \E i \in DOMAIN calls : calls[i].op = op /\ calls[i].ok
    /\ \E i \in DOMAIN calls : calls[i].api = "src"

\* The platforms whose country_code() is the placeholder "UNKNOWN".
NoCountryPlatforms == {"YtMusic", "Plex"}

\* C28 as stated: when the country codes of source and destination differ
\* and diff_country is not set, synchronize returns a configuration error
\* before any client call.
C28_ErrorWheneverCountriesDiffer ==
    (/\ platform.command = "sync"
     /\ platform.src.country # platform.dst.country
     /\ ~config.diff_country)
        => (pc \in {"entry", "config_error"} /\ calls = <<>>)

\* C28, amended: synchronize returns the configuration error, before any
\* client call, exactly when neither platform is YtMusic or Plex, the
\* country codes differ and diff_country is not set; with YtMusic or Plex
\* on either side no configuration error is returned.
C28_ErrorWhenKnownCountriesDiffer ==
    LET known == /\ platform.src.type \notin NoCountryPlatforms
                 /\ platform.dst.type \notin NoCountryPlatforms
        refused == /\ platform.command = "sync"
                   /\ known
                   /\ platform.src.country # platform.dst.country
                   /\ ~config.diff_country
    IN  /\ refused => (pc \in {"entry", "config_error"} /\ calls = <<>>)
        /\ pc = "config_error" => refused
        /\ ~refused => pc # "config_error"
        /\ (platform.command = "sync" /\ ~refused /\ pc \notin {"entry", "start"})
                => calls # <<>>

C28_Witness ==
    /\ pc = "config_error"
    /\ calls = <<>>
    /\ platform.src.country # platform.dst.country

\* The calls of the likes pass of run r: from src_api.get_likes on.
LikesPass(r) ==
    {i \in DOMAIN calls :
        /\ calls[i].run = r
        /\ \E j \in 1..i : /\ calls[j].run = r
                           /\ calls[j].api = "src"
                           /\ calls[j].op = "get_likes"}

\* The songs the likes pass is to like: of the source likes not contained in
\* the destination likes, in source order, the search results that the
\* destination likes do not contain.
LikesToAdd(src, dst) ==
    LET found(s) == SearchResult(s, isrcHit, ranking)
        wanted == SelectSeq(src, LAMBDA s :
                      /\ ~Contains(dst, s)
                      /\ found(s) # NoSong
                      /\ ~Contains(dst, found(s)))
    IN  [i \in DOMAIN wanted |-> found(wanted[i])]

\* C29: likes mirroring runs once per run when enabled, after the playlist
\* pass has succeeded; search_song is called only for source likes not
\* contained in the destination likes, a matched song is queued only if the
\* destination likes do not contain it, and add_likes is called exactly
\* once, at the end, with the queued songs in source order.
C29_LikesMirroredOnceAtEnd ==
    /\ [](\A r \in 1..run :
            LET pass == LikesPass(r)
                adds == {i \in pass : calls[i].op = "add_likes"}
            IN  /\ pass # {} =>
                    /\ config.sync_likes
                    /\ platform.command = "sync"
                    /\ \A j \in DOMAIN calls :
                          (calls[j].run = r /\ j \notin pass) => calls[j].ok
                    /\ \E j \in DOMAIN calls : calls[j].run = r /\ j \notin pass
                /\ Cardinality({i \in pass : calls[i].api = "src"}) <= 1
                /\ Cardinality(adds) <= 1
                /\ \A i \in adds : \A j \in DOMAIN calls : calls[j].run = r => j <= i
                /\ (config.sync_likes /\ platform.command = "sync"
                        /\ (r < run \/ pc = "done")) => Cardinality(adds) = 1
                /\ (pc = "likes" /\ r = run) =>
                      \A k \in DOMAIN new_likes : ~Contains(dst_likes, new_likes[k]))
    /\ [][(calls' # calls /\ pc = "likes") =>
            LET call == Last(calls')
            IN  /\ dst_likes = remoteLikes
                /\ src_likes = srcLikesSnapshot
                /\ call.op = "search_song" =>
                      /\ call.songs = <<src_likes[idx]>>
                      /\ ~Contains(dst_likes, src_likes[idx])
                      /\ new_likes' # new_likes =>
                          /\ new_likes' = Append(new_likes, Last(new_likes'))
                          /\ ~Contains(dst_likes, Last(new_likes'))
                /\ call.op = "add_likes" =>
                      /\ idx > Len(src_likes)
                      /\ call.songs = new_likes
                      /\ call.songs = LikesToAdd(srcLikesSnapshot, remoteLikes)]_vars

C29_Witness ==
    /\ pc = "done"
    /\ \E i \in LikesPass(run) :
        /\ calls[i].op = "add_likes"
        /\ Len(calls[i].songs) = 2
        /\ calls[i].songs[1] # calls[i].songs[2]
        /\ calls[i].ok

\* C30: with like_all, the songs passed to add_likes after a playlist's batch
\* was submitted are exactly the songs of the batch that the destination
\* likes do not contain; without like_all the playlist pass calls neither
\* get_likes nor add_likes.
C30_LikesExactlyTheUnlikedOfBatch ==
    /\ [](~config.like_all =>
            \A i \in DOMAIN calls :
                calls[i].op \in {"get_likes", "add_likes"} => i \in LikesPass(calls[i].run))
    /\ [][(calls' # calls /\ pc = "like_added") =>
            /\ config.like_all
            /\ Last(calls').op = "add_likes"
            /\ Last(calls').songs =
                  SelectSeq(to_sync, LAMBDA s : ~Contains(remoteLikes, s))]_vars

(***************************************************************************)
(* Properties of the adapters' playlist operations (checked under AddSpec).*)
(***************************************************************************)
\* The operations an adapter does not implement.
Unsupported ==
    {<<"Tidal", "remove_songs_from_playlist">>,
     <<"Plex", "remove_songs_from_playlist">>,
     <<"Plex", "delete_playlist">>}

\* C31: a call of an operation the adapter does not support returns an
\* UnsupportedOperation error value to the caller; it does not panic.
C31_UnsupportedReturnsErrorValue ==
    (<<ad_api, ad_op>> \in Unsupported /\ ad_state # "idle")
        => (ad_state = "unsupported" /\ ad_state # "panicked")

(***************************************************************************)
(* Further properties of the orchestrator (checked under Spec).            *)
(***************************************************************************)
\* The positions of songs at which a (source, id) occurs for the first time.
FirstPositions(songs) ==
    {i \in DOMAIN songs : \A j \in 1..(i - 1) : ~SameTrack(songs[j], songs[i])}

\* The songs at these positions, in order.
FirstOccurrences(songs) ==
    LET first == FirstPositions(songs)
        nth(n) == CHOOSE i \in first : Cardinality({j \in first : j < i}) = n - 1
    IN  [n \in 1..Cardinality(first) |-> songs[nth(n)]]

\* The songs searched for playlist k of run r, in the order of the calls.
SearchedFor(r, k) ==
    LET searches == SelectSeq(calls, LAMBDA c :
                        c.run = r /\ c.item = k /\ c.op = "search_song")
    IN  [i \in DOMAIN searches |-> searches[i].songs[1]]

\* C32: before any search the songs of a source playlist are deduplicated
\* by (source, id), one representative per id in first-occurrence order, so
\* within one playlist search_song is called at most once per (source, id),
\* in the order of first occurrence.
C32_SearchOncePerTrackInFirstOrder ==
    /\ [](pc = "songs" =>
            LET searched == SearchedFor(run, Len(targets))
            IN  /\ \A i, j \in DOMAIN searched :
                      SameTrack(searched[i], searched[j]) => i = j
                /\ IsSubseq(searched, src_playlist.songs)
                /\ \A i, j \in DOMAIN src_playlist.songs :
                      SameTrack(src_playlist.songs[i], src_playlist.songs[j]) => i = j)
    /\ [][(pc = "loop" /\ pc' = "songs") =>
            /\ src_playlist'.songs = FirstOccurrences(Head(src_playlists).songs)
            /\ SearchedFor(run, Len(targets')) = <<>>]_vars

C32_Witness ==
    /\ pc = "loop"
    /\ run = 1
    /\ srcSnapshot = <<[name |-> Mix, songs |-> <<SrcSong1, SrcSong1>>]>>
    /\ SearchedFor(1, 1) = <<SrcSong1>>

(***************************************************************************)
(* Further properties of one YtMusic request (checked under RequestSpec).  *)
(***************************************************************************)
\* C33: when a response reports an explicit authentication failure, the
\* client refreshes its session credential: once the failure has been
\* reported the credential is a fresh one.
C33_AuthFailureRefreshesCredential ==
    req_state = "auth_error" => token_age = 0

(***************************************************************************)
(* Further properties of search_song (checked under SearchSpec).           *)
(***************************************************************************)
\* C34: in the YtMusic and Tidal adapters, when the source song has an ISRC
\* and the ISRC search returns no candidate, search_song returns no result
\* and sends no name/artist/album query.
C34_NoFallbackAfterIsrcSearch ==
    (sr_api \in {"YtMusic", "Tidal"} /\ sr_song.isrc # NoIsrc) =>
        /\ Len(sr_requests) <= 1
        /\ \A i \in DOMAIN sr_requests : sr_requests[i].kind = "isrc"
        /\ sr_queries = <<>>
        /\ (sr_answers # <<>> /\ sr_answers[1] = <<>>) =>
                /\ sr_state = "none"
                /\ sr_result = NoSong
                /\ ~ENABLED TextSearch

C34_Witness ==
    /\ sr_api = "Tidal"
    /\ sr_song.isrc # NoIsrc
    /\ sr_state = "none"
    /\ sr_requests = <<[kind |-> "isrc", query |-> sr_song.isrc]>>
    /\ sr_answers = << <<>> >>

(***************************************************************************)
(* Properties of YtMusic add_songs_to_playlist and its bisection (checked  *)
(* under AddLiveSpec).                                                     *)
(***************************************************************************)
\* The playlist at the platform before the k-th request: what the caller
\* last saw, and the slices accepted so far.
RemoteBefore(k) ==
    ad_prev \o Concat([j \in 1..(k - 1) |->
                        IF ad_answers[j] = "success" THEN ad_requests[j] ELSE <<>>])

\* The k-th request holds a song the playlist has by then, counting the
\* songs before it in the same request.
HasPresentSong(k) ==
    LET slice == ad_requests[k]
        before == RemoteBefore(k)
    IN  \E i \in DOMAIN slice :
            \/ \E j \in DOMAIN before : SameTrack(before[j], slice[i])
            \/ \E j \in 1..(i - 1) : SameTrack(slice[j], slice[i])

\* The platform of the claim: a duplicate conflict for every request holding
\* an already-present song (for a single song, as a dialog or as a toast),
\* success for every other request.
ConflictPlatform ==
    \A k \in DOMAIN ad_answers :
        IF HasPresentSong(k)
        THEN \/ ad_answers[k] = "duplicates"
             \/ ad_answers[k] = "already" /\ Len(ad_requests[k]) = 1
        ELSE ad_answers[k] = "success"

\* The requests that were not bisected, one after the other.
LeafSongs ==
    Concat([k \in DOMAIN ad_answers |->
              IF ad_answers[k] = "duplicates" /\ Len(ad_requests[k]) > 1
              THEN <<>> ELSE ad_requests[k]])

\* The songs the platform added during the call.
RemotelyAdded == RemoteBefore(Len(ad_answers) + 1)

C36_BatchAppendedOnceWhenBisected ==
    (/\ ad_api = "YtMusic"
     /\ ad_op = "add_songs_to_playlist"
     /\ ad_state \in {"ok", "failed"}) =>
        /\ Len(ad_songs) = Len(ad_prev) + Len(ad_batch)
        /\ SubSeq(ad_songs, Len(ad_prev) + 1, Len(ad_songs)) = ad_batch

(***************************************************************************)
(* The attempts of one YtMusic request (checked under RequestSpec).        *)
(***************************************************************************)
\* A response that reports a rate limit: status 429 or the "automated
\* queries" text.
RateLimitedResponse(res) == res.status = 429 \/ res.automated

\* The states in which make_request has returned.
RequestOver == {"transport_error", "refresh_error", "auth_error", "http_error",
               "parse_error", "exhausted", "succeeded"}

\* C37: within one request a new attempt is sent only after a rate-limited
\* response (and the sleep that follows it); a transport failure, a 4xx/5xx
\* response that is not rate-limited or an unparsable body ends the request
\* with an error at once, without retry or sleep, and a success response
\* ends it with the parsed result.
C37_RetryOnlyAfterRateLimit ==
    [][/\ (sent' = sent + 1 /\ sent > 0) =>
            /\ RateLimitedResponse(response)
            /\ Len(waits) = sent
       /\ waits' # waits =>
            /\ RateLimitedResponse(response)
            /\ sent' = sent
       /\ req_state \in RequestOver =>
            /\ sent' = sent
            /\ waits' = waits
            /\ req_state' = req_state
       /\ req_state' = "transport_error" => (sent' = sent + 1 /\ waits' = waits)
       /\ (sent' = sent + 1 /\ req_state' # "transport_error"
                /\ ~RateLimitedResponse(response')) =>
            /\ waits' = waits
            /\ (response'.status >= 400) => req_state' \in {"http_error", "auth_error"}
            /\ (response'.status < 400 /\ ~response'.parses) =>
                    req_state' \in {"parse_error", "auth_error"}
            /\ (response'.status < 400 /\ response'.parses /\ ~response'.signed_out) =>
                    req_state' = "succeeded"]_vars

C37_Witness ==
    /\ req_state = "http_error"
    /\ response.status = 503
    /\ sent = 2
    /\ waits = <<3>>

(***************************************************************************)
(* Source playlists of one name, pacing without YtMusic, and likes sent    *)
(* twice (checked under Spec).                                             *)
(***************************************************************************)
\* C38 as stated: when two source playlists share a name, create_playlist is
\* called at most once for that name in a run and the batches of both are
\* added to the same destination playlist.
C38_SameNameSharesDestination ==
    \A i, j \in DOMAIN calls :
        (calls[i].run = calls[j].run /\ calls[i].pl = calls[j].pl /\ i # j) =>
            /\ ~(calls[i].op = "create_playlist" /\ calls[j].op = "create_playlist")
            /\ (calls[i].op = "add_songs_to_playlist"
                    /\ calls[j].op = "add_songs_to_playlist")
                  => calls[i].target = calls[j].target

\* C38, amended: source playlists that share a name are synchronized onto
\* different destination playlists.  Each takes a destination playlist of
\* the name that no earlier source playlist of the run has taken; if none is
\* left create_playlist is called for it, so a name can be created several
\* times in a run, and no two source playlists of a run add to the same
\* destination playlist.
C38_SameNameGetsOwnDestination ==
    /\ [](\A i, j \in DOMAIN targets : targets[i] = targets[j] => i = j)
    /\ [][(calls' # calls /\ Last(calls').op = "add_songs_to_playlist") =>
            /\ Last(calls').target = targets[Len(targets)]
            /\ Last(calls').pl = src_playlist.name
            /\ \A i \in DOMAIN calls :
                  (calls[i].run = run /\ calls[i].op = "add_songs_to_playlist")
                      => calls[i].target # Last(calls').target]_vars
    /\ [][(pc = "loop" /\ pc' = "songs") =>
            LET name == Head(src_playlists).name
                left == {i \in DOMAIN dst_playlists : dst_playlists[i].name = name}
            IN  IF left = {}
                THEN /\ calls' = Append(calls, Last(calls'))
                     /\ Last(calls').op = "create_playlist"
                     /\ Last(calls').pl = name
                     /\ dst_playlists' = dst_playlists
                     /\ \A k \in DOMAIN targets : dst_playlist'.id # targets[k]
                ELSE /\ calls' = calls
                     /\ dst_playlist' \in {dst_playlists[i] : i \in left}
                     /\ Len(dst_playlists') = Len(dst_playlists) - 1
                     /\ \A i \in DOMAIN dst_playlists' :
                            dst_playlists'[i].id # dst_playlist'.id]_vars

C38_Witness ==
    \E i, j \in DOMAIN calls :
        /\ i < j
        /\ calls[i].run = calls[j].run
        /\ calls[i].pl = calls[j].pl
        /\ calls[i].op = "create_playlist" /\ calls[i].ok
        /\ calls[j].op = "create_playlist" /\ calls[j].ok
        /\ \E k \in DOMAIN calls :
            /\ k > j
            /\ calls[k].run = calls[j].run
            /\ calls[k].op = "add_songs_to_playlist"
            /\ calls[k].pl = calls[j].pl

\* C39: when the destination platform is not YtMusic the orchestrator takes
\* no pacing cooldown and leaves the pacing counter and the cooldown
\* duration unchanged, whatever the number of searches in the run.
C39_NoPacingWithoutYtMusic ==
    /\ [](platform.dst.type # "YtMusic" =>
            /\ cooldowns = <<>>
            /\ SONG_COUNTER = 0
            /\ SLEEP_DURATION = 180)
    /\ [][platform.dst.type # "YtMusic" =>
            /\ SONG_COUNTER' = SONG_COUNTER
            /\ SLEEP_DURATION' = SLEEP_DURATION
            /\ cooldowns' = cooldowns]_vars

C39_Witness ==
    /\ platform.dst.type = "Tidal"
    /\ pc = "done"
    /\ SearchesIn(run) >= 200
    /\ cooldowns = <<>>
    /\ SONG_COUNTER = 0

\* The songs submitted to add_likes in run r, call after call.
LikesSubmitted(r) ==
    Concat([i \in DOMAIN calls |->
              IF calls[i].run = r /\ calls[i].op = "add_likes"
              THEN calls[i].songs ELSE <<>>])

\* C40: no destination song is submitted to add_likes more than once in a
\* run, neither within the batch of the likes pass nor, with like_all, for
\* two playlists of the run.
C40_NoSongLikedTwiceInRun ==
    \A r \in 1..run :
        LET submitted == LikesSubmitted(r)
        IN  \A i, j \in DOMAIN submitted :
                SameTrack(submitted[i], submitted[j]) => i = j

=============================================================================
